---------------------------- MODULE Spec2Model ----------------------------
(***************************************************************************)
(* Client-side HTTP / auth / retry layer of the help-desk rostering web    *)
(* client: token store, HTTP wrappers, retry policies, auth session        *)
(* context, client route guard and edge interceptor.                       *)
(*                                                                         *)
(* Several specifications share the variables of this module:              *)
(*   SpecToken  the token store (getToken / storeToken / clearToken)       *)
(*   SpecRetry  ApiClient.fetchWithRetry and retryWithBackoff              *)
(*   SpecHttp   the HTTP wrappers apiFetch (apiClient) and apiV2Fetch      *)
(*   SpecEdge   the edge interceptor (middleware)                          *)
(*   SpecAuth   the auth session context with the token store beneath it   *)
(***************************************************************************)
EXTENDS Integers, Sequences, FiniteSets, TLC

VARIABLES
  \* ---- token store (browser cookie jar and localStorage) ----
  cookieName,   \* COOKIE_NAME, from NEXT_PUBLIC_AUTH_COOKIE_NAME
  cookies,      \* the browser's cookie jar: name -> [present, val, httpOnly]
  localStore,   \* window.localStorage: key -> string or NoToken (absent)
  lsOK,         \* FALSE when every localStorage access throws
  tsLast,       \* SpecToken: the operation last applied and its argument
  tsRead,       \* SpecToken: what getToken() returned right after it
  \* ---- retry policies ----
  rFn,          \* the retry function running: fetchWithRetry or retryWithBackoff
  rPc,          \* "idle", "attempt" (request in flight), "wait" (backoff timer), "done"
  rAttempt,     \* number of the current attempt (attempt, resp. i + 1)
  rHist,        \* what each attempt so far ended in
  rDelays,      \* the backoff delays waited so far, in ms
  rLastErr,     \* the error of the last failed attempt (lastErr / error)
  rResult,      \* what the call settled to
  \* ---- HTTP wrappers ----
  hWrapper,     \* the wrapper applied: "apiFetch", "apiV2Fetch" or "fetchWithRetry"
  hResp,        \* what the fetch ended in
  hOut,         \* what the wrapper returned or threw
  \* ---- edge interceptor ----
  eMode,        \* AUTH_MODE: "mock" or "" (real)
  eDevRole,     \* AUTH_DEV_ROLE
  eKeyCfg,      \* which verification key is configured: "jwks", "secret", "none"
  ePath,        \* req.nextUrl.pathname
  eCookie,      \* the request's COOKIE_NAME cookie
  eResp,        \* the response of the interceptor
  \* ---- auth session context ----
  authMode,     \* AUTH_MODE: "mock" or "" (real)
  authDevRole,  \* AUTH_DEV_ROLE
  variant,      \* which AuthProvider: "session" (/api/session) or "v2" (ApiV2.loginV2)
  user,         \* useState user: NoUser (null) or [id, role]
  loading,      \* useState loading
  mounted,      \* the `mounted` flag of the bootstrap effect
  pcBoot,       \* bootstrap: "start", "me" (getMe in flight), "done"
  pcLogin,      \* login: "idle", "wait" (login request in flight)
  pcReg,        \* register: "idle", "reg" (register in flight), "me" (getMe in flight)
  pcLogout,     \* logout: "idle", "import" (after setUser(null)), "wait" (server call in flight)
  pcCall,       \* an authenticated API call: "idle", "wait"
  logoutTrace,  \* what the running logout has done so far, in order
  afterLogout,  \* history: the calls that were in flight when logout was invoked
                \* and have not ended yet
  ev,           \* the step last taken: operation, response it consumed, requests it issued, value it returned
  \* ---- service functions and forms ----
  svcOp,        \* the function called: "none" before the call
  svcIn,        \* its arguments
  svcOut,       \* what it did: rejected or sent, requests issued, form errors set
  \* ---- performance polling hooks ----
  pHook,        \* which hook: usePerformanceMetrics, useHealthStatus, useSlowOperations
  pMounted,     \* the component that uses the hook is mounted
  pEnabled,     \* useState isAutoRefreshEnabled
  pInterval,    \* options.refreshInterval, in ms
  pFetchData,   \* identity of the fetchData callback (a new one per enableToastOnError)
  pDeps,        \* the dependencies the effects last ran with
  pRef,         \* intervalRef.current: 0 (null) or a timer id
  pTimers,      \* the interval timers that are active
  pNextId,      \* the id the next setInterval returns
  pReqs,        \* the requests fetchData has issued, in order: source and state
  pData,        \* state.data: 0 (null) or the number of the request whose response it is
  \* ---- registration draft ----
  dForm,        \* useState formData (and formDataRef.current)
  dStored,      \* localStorage["help-desk-registration-draft"]
  dHydrated,    \* useState hasHydrated
  dTimer,       \* the debounced save is scheduled
  dLastWrite,   \* the payload of the last setItem of the page: NoDraft before the first
  \* ---- schedule editor ----
  sEditor,      \* which page: "state" (useScheduleAPI state) or "query" (query cache)
  sMax,         \* maxStaff / max_staff of the shifts: a number or Unspecified
  sData,        \* the schedule held now: cell -> assistants (ids, in order)
  sCell,        \* useState selectedCell
  sModal,       \* useState showStaffModal
  sSeen,        \* the schedule of the last render, which the handlers read
  sStale,       \* how many handlers have run since the last render
  \* ---- generateSchedule of useScheduleAPI ----
  gPc,          \* "idle", "first" (first request in flight), "retry" (request of
                \* retryWithBackoff in flight), "backoff" (its timer), "done"
  gI,           \* the loop variable i of retryWithBackoff
  gReqs,        \* the requests issued so far
  gHist,        \* the answers so far, in order
  gDelays,      \* the delays waited so far, in ms
  gLoading,     \* useState loading
  gOut          \* "pending", "resolved" or "rejected"

tokVars == <<cookieName, cookies, localStore, lsOK>>
tsVars == <<tsLast, tsRead>>
retryVars == <<rFn, rPc, rAttempt, rHist, rDelays, rLastErr, rResult>>
httpVars == <<hWrapper, hResp, hOut>>
edgeVars == <<eMode, eDevRole, eKeyCfg, ePath, eCookie, eResp>>
authVars == <<authMode, authDevRole, variant, user, loading, mounted,
              pcBoot, pcLogin, pcReg, pcLogout, pcCall, logoutTrace, afterLogout, ev>>
svcVars == <<svcOp, svcIn, svcOut>>
pollVars == <<pHook, pMounted, pEnabled, pInterval, pFetchData, pDeps, pRef, pTimers,
              pNextId, pReqs, pData>>
draftVars == <<dForm, dStored, dHydrated, dTimer, dLastWrite>>
schedVars == <<sEditor, sMax, sData, sCell, sModal, sSeen, sStale>>
genVars == <<gPc, gI, gReqs, gHist, gDelays, gLoading, gOut>>
uiVars == <<pollVars, draftVars, schedVars, genVars>>
nonUi == <<tokVars, tsVars, retryVars, httpVars, edgeVars, authVars, svcVars>>
nonPoll == <<nonUi, draftVars, schedVars, genVars>>
nonDraft == <<nonUi, pollVars, schedVars, genVars>>
nonSched == <<nonUi, pollVars, draftVars, genVars>>
nonGen == <<nonUi, pollVars, draftVars, schedVars>>
vars == <<tokVars, tsVars, retryVars, httpVars, edgeVars, authVars, svcVars, uiVars>>

(***************************************************************************)
(* Strings are sequences of one-character strings, so that the URI         *)
(* encoding of cookie values is computed and not assumed.                  *)
(***************************************************************************)
MaxTokenLen == 2
Chars == {"a", "%"}

RECURSIVE SeqsUpTo(_, _)
SeqsUpTo(S, n) ==
  IF n = 0 THEN {<<>>}
  ELSE LET prev == SeqsUpTo(S, n - 1)
       IN  prev \cup {Append(s, c) : s \in {p \in prev : Len(p) = n - 1}, c \in S}

TokenStrings == SeqsUpTo(Chars, MaxTokenLen)

\* null / undefined where a string is expected
NoToken == <<"null">>
\* the value a throwing decodeURIComponent stands for
URIError == <<"URIError">>

\* JavaScript truthiness of a string-or-null value
Truthy(s) == s # NoToken /\ s # <<>>

\* a || b on string-or-null values
OrElse(a, b) == IF Truthy(a) THEN a ELSE b

RECURSIVE encodeURIComponent(_)
encodeURIComponent(s) ==
  IF s = <<>> THEN <<>>
  ELSE (IF Head(s) = "%" THEN <<"%", "2", "5">> ELSE <<Head(s)>>)
         \o encodeURIComponent(Tail(s))

RECURSIVE decodeURIComponent(_)
decodeURIComponent(s) ==
  IF s = <<>> THEN <<>>
  ELSE IF Head(s) = "%"
       THEN IF Len(s) >= 3 /\ s[2] = "2" /\ s[3] = "5"
            THEN LET rest == decodeURIComponent(SubSeq(s, 4, Len(s)))
                 IN  IF rest = URIError THEN URIError ELSE <<"%">> \o rest
            ELSE URIError
       ELSE LET rest == decodeURIComponent(Tail(s))
            IN  IF rest = URIError THEN URIError ELSE <<Head(s)>> \o rest

CookieNames == {"access_token", "auth_token"}
LOCAL_STORAGE_KEYS == <<"authToken", "access_token", "auth_token">>
LocalKeys == {LOCAL_STORAGE_KEYS[i] : i \in 1..Len(LOCAL_STORAGE_KEYS)}

NoCookie == [present |-> FALSE, val |-> <<>>, httpOnly |-> FALSE]
VisibleCookie(v) == [present |-> TRUE, val |-> v, httpOnly |-> FALSE]
HttpOnlyCookie(v) == [present |-> TRUE, val |-> v, httpOnly |-> TRUE]

\* document.cookie as the script sees it: the "name=value" parts of the
\* cookies that are not HttpOnly, in jar order
CookieOrder == <<"access_token", "auth_token">>
RECURSIVE DocumentCookieFrom(_, _)
DocumentCookieFrom(jar, i) ==
  IF i > Len(CookieOrder) THEN <<>>
  ELSE LET n == CookieOrder[i]
       IN  (IF jar[n].present /\ ~jar[n].httpOnly THEN <<<<n, jar[n].val>>>> ELSE <<>>)
             \o DocumentCookieFrom(jar, i + 1)
DocumentCookie(jar) == DocumentCookieFrom(jar, 1)

\* getCookie: the first part whose key is `name`, URI-decoded; else null
RECURSIVE getCookieIn(_, _)
getCookieIn(parts, name) ==
  IF parts = <<>> THEN NoToken
  ELSE IF Head(parts)[1] = name THEN decodeURIComponent(Head(parts)[2])
       ELSE getCookieIn(Tail(parts), name)
getCookie(jar, name) == getCookieIn(DocumentCookie(jar), name)

\* document.cookie = "name=value; ..." : a script cannot create, overwrite
\* or expire a cookie that the jar holds as HttpOnly
ScriptWrite(jar, name, c) ==
  IF jar[name].present /\ jar[name].httpOnly THEN jar
  ELSE [jar EXCEPT ![name] = c]

setCookie(jar, name, value) == ScriptWrite(jar, name, VisibleCookie(encodeURIComponent(value)))

deleteCookie(jar, name) == ScriptWrite(jar, name, NoCookie)

\* the loop of getToken over LOCAL_STORAGE_KEYS: `token` after the loop
RECURSIVE LocalScan(_, _, _, _)
LocalScan(ls, ok, i, token) ==
  IF i > Len(LOCAL_STORAGE_KEYS) THEN token
  ELSE LET t == IF ok THEN ls[LOCAL_STORAGE_KEYS[i]] ELSE NoToken
       IN  IF Truthy(t) THEN t ELSE LocalScan(ls, ok, i + 1, t)

getTokenOf(jar, ls, ok, cname) ==
  LET token == LocalScan(ls, ok, 1, NoToken)
  IN  IF Truthy(token) THEN token
      ELSE OrElse(getCookie(jar, "access_token"),
                  OrElse(getCookie(jar, cname), getCookie(jar, "auth_token")))

getToken == getTokenOf(cookies, localStore, lsOK, cookieName)

storeTokenCookies(jar, cname, token) ==
  setCookie(setCookie(jar, cname, token), "access_token", token)

storeTokenLocal(ls, ok, token) ==
  IF ok THEN [ls EXCEPT !["authToken"] = token, !["access_token"] = token] ELSE ls

clearTokenCookies(jar, cname) == deleteCookie(deleteCookie(jar, cname), "access_token")

clearTokenLocal(ls, ok) == IF ok THEN [k \in LocalKeys |-> NoToken] ELSE ls

(***************************************************************************)
(* Retry policies: ApiClient.fetchWithRetry and retryWithBackoff           *)
(***************************************************************************)
\* RETRY_CONFIG of ApiClient
RETRY_maxAttempts == 3
RETRY_baseDelay == 1000
RETRY_maxDelay == 5000
RETRY_backoffFactor == 2
\* defaults of retryWithBackoff(fn, attempts = 3, base = 400)
RWB_attempts == 3
RWB_base == 400

RECURSIVE Pow(_, _)
Pow(b, e) == IF e = 0 THEN 1 ELSE b * Pow(b, e - 1)

Min(a, b) == IF a < b THEN a ELSE b

\* What one network exchange ends in: the fetch rejects (network failure or
\* the 30 s abort), or a response arrives.  `success` is the envelope field
\* of its JSON body: "true", "false" or "absent".
RetryStatuses == {200, 401, 404, 500, 503}
NetFailure == [net |-> TRUE, status |-> 0, success |-> "absent"]
HttpResponse(st, su) == [net |-> FALSE, status |-> st, success |-> su]
Exchanges ==
  {NetFailure} \cup {HttpResponse(st, su) : st \in RetryStatuses, su \in {"true", "false", "absent"}}

ResponseOk(x) == x.status >= 200 /\ x.status <= 299

\* errors: a typed HTTP error (ScheduleApiError / HttpError) with its
\* status, or any other thrown value (TypeError of a rejected fetch)
TypedError(st, x) == [typed |-> TRUE, status |-> st, from |-> x]
OtherError(x) == [typed |-> FALSE, status |-> 0, from |-> x]
NoError == [typed |-> FALSE, status |-> -1, from |-> NetFailure]

Returned(x) == [kind |-> "return", err |-> NoError, from |-> x]
Thrown(e) == [kind |-> "throw", err |-> e, from |-> e.from]
Pending == [kind |-> "pending", err |-> NoError, from |-> NetFailure]

\* the try block of fetchWithRetry on one exchange
FetchWithRetryTry(x) ==
  IF x.net THEN Thrown(OtherError(x))
  ELSE IF ~ResponseOk(x) THEN Thrown(TypedError(x.status, x))
  ELSE IF x.success # "true" THEN Thrown(TypedError(x.status, x))
  ELSE Returned(x)

\* apiFetch of the API client, as the fn handed to retryWithBackoff
ApiClientFetchTry(x) ==
  IF x.net THEN Thrown(OtherError(x))
  ELSE IF ~ResponseOk(x) THEN Thrown(TypedError(x.status, x))
  ELSE Returned(x)

\* whether the catch block of fetchWithRetry rethrows without retrying
FetchWithRetryNoRetry(e) == e.typed /\ e.status < 500

\* whether the catch block of retryWithBackoff rethrows without retrying
RetryWithBackoffNoRetry(e) == FALSE

FetchWithRetryDelay(attempt) ==
  Min(RETRY_baseDelay * Pow(RETRY_backoffFactor, attempt - 1), RETRY_maxDelay)

RetryWithBackoffDelay(i) == RWB_base * Pow(2, i)

\* createNetworkError wraps every non-typed error into a typed one, status 0
SurfacedByFetchWithRetry(e) == IF e.typed THEN e ELSE TypedError(0, e.from)

\* a caller invokes one of the two retrying functions
RetryCall ==
  /\ rPc = "idle"
  /\ rFn' \in {"fetchWithRetry", "retryWithBackoff"}
  /\ rPc' = "attempt"
  /\ rAttempt' = 1
  /\ UNCHANGED <<rHist, rDelays, rLastErr, rResult, tokVars, tsVars, httpVars, edgeVars, authVars, svcVars, uiVars>>

\* fetchWithRetry: one attempt, from the fetch to the end of its catch block
FetchWithRetryAttempt ==
  /\ rFn = "fetchWithRetry" /\ rPc = "attempt"
  /\ \E x \in Exchanges :
       LET out == FetchWithRetryTry(x) IN
       /\ rHist' = Append(rHist, out)
       /\ IF out.kind = "return"
          THEN /\ rPc' = "done" /\ rResult' = out
               /\ UNCHANGED <<rDelays, rLastErr>>
          ELSE /\ rLastErr' = out.err
               /\ IF FetchWithRetryNoRetry(out.err)
                  THEN /\ rPc' = "done" /\ rResult' = Thrown(out.err)
                       /\ UNCHANGED rDelays
                  ELSE IF rAttempt < RETRY_maxAttempts
                  THEN /\ rPc' = "wait"
                       /\ rDelays' = Append(rDelays, FetchWithRetryDelay(rAttempt))
                       /\ UNCHANGED rResult
                  ELSE /\ rPc' = "done"
                       /\ rResult' = Thrown(SurfacedByFetchWithRetry(out.err))
                       /\ UNCHANGED rDelays
  /\ UNCHANGED <<rFn, rAttempt, tokVars, tsVars, httpVars, edgeVars, authVars, svcVars, uiVars>>

\* fetchWithRetry: the backoff timer fires and the function calls itself
FetchWithRetryTimer ==
  /\ rFn = "fetchWithRetry" /\ rPc = "wait"
  /\ rAttempt' = rAttempt + 1
  /\ rPc' = "attempt"
  /\ UNCHANGED <<rFn, rHist, rDelays, rLastErr, rResult, tokVars, tsVars, httpVars, edgeVars, authVars, svcVars, uiVars>>

\* retryWithBackoff: one pass of the loop body up to the setTimeout
RetryWithBackoffAttempt ==
  /\ rFn = "retryWithBackoff" /\ rPc = "attempt"
  /\ \E x \in Exchanges :
       LET out == ApiClientFetchTry(x) IN
       /\ rHist' = Append(rHist, out)
       /\ IF out.kind = "return"
          THEN /\ rPc' = "done" /\ rResult' = out
               /\ UNCHANGED <<rDelays, rLastErr>>
          ELSE /\ rLastErr' = out.err
               /\ IF RetryWithBackoffNoRetry(out.err)
                  THEN /\ rPc' = "done" /\ rResult' = Thrown(out.err)
                       /\ UNCHANGED rDelays
                  ELSE /\ rPc' = "wait"
                       /\ rDelays' = Append(rDelays, RetryWithBackoffDelay(rAttempt - 1))
                       /\ UNCHANGED rResult
  /\ UNCHANGED <<rFn, rAttempt, tokVars, tsVars, httpVars, edgeVars, authVars, svcVars, uiVars>>

\* retryWithBackoff: the timer fires; i++ and the loop test
RetryWithBackoffTimer ==
  /\ rFn = "retryWithBackoff" /\ rPc = "wait"
  /\ IF rAttempt < RWB_attempts
     THEN /\ rAttempt' = rAttempt + 1 /\ rPc' = "attempt"
          /\ UNCHANGED rResult
     ELSE /\ rPc' = "done" /\ rResult' = Thrown(rLastErr)
          /\ UNCHANGED rAttempt
  /\ UNCHANGED <<rFn, rHist, rDelays, rLastErr, tokVars, tsVars, httpVars, edgeVars, authVars, svcVars, uiVars>>

NextRetry ==
  \/ RetryCall
  \/ FetchWithRetryAttempt
  \/ FetchWithRetryTimer
  \/ RetryWithBackoffAttempt
  \/ RetryWithBackoffTimer

RetryCeiling == IF rFn = "fetchWithRetry" THEN RETRY_maxAttempts ELSE RWB_attempts

FailedWithStatus(out) == out.kind = "throw" /\ out.err.typed

\* C1: when every attempt fails with an HTTP status >= 500 the call is
\* attempted up to the configured ceiling before the final error is
\* surfaced, and an attempt that fails with an HTTP status < 500 is never
\* retried: no attempt follows it, so a call whose first attempt fails that
\* way makes exactly one attempt.
C1_RetryPolicy ==
  /\ (/\ rPc = "done"
      /\ \A i \in 1..Len(rHist) : FailedWithStatus(rHist[i]) /\ rHist[i].err.status >= 500)
       => (Len(rHist) = RetryCeiling /\ rResult.kind = "throw")
  /\ \A i \in 1..Len(rHist) :
       (FailedWithStatus(rHist[i]) /\ rHist[i].err.status < 500) => Len(rHist) = i

\* the same statement of fetchWithRetry alone
C1_FetchWithRetryOnly == rFn = "fetchWithRetry" => C1_RetryPolicy

\* the wait the policy prescribes after failed attempt number k
PrescribedDelay(k) ==
  IF rFn = "fetchWithRetry"
  THEN Min(RETRY_baseDelay * Pow(RETRY_backoffFactor, k - 1), RETRY_maxDelay)
  ELSE RWB_base * Pow(2, k - 1)

\* C17: retry timing.  The wait after failed attempt number k is
\* min(baseDelay * factor^(k-1), maxDelay) (1000 ms then 2000 ms in
\* fetchWithRetry, base * 2^(k-1) in retryWithBackoff); every wait is
\* followed by another attempt, and no wait happens after the final attempt.
C17_RetryTiming ==
  /\ \A k \in 1..Len(rDelays) : rDelays[k] = PrescribedDelay(k)
  /\ rPc = "wait" => Len(rHist) < RetryCeiling
  /\ rPc = "done" => Len(rDelays) = Len(rHist) - 1

\* the same statement of fetchWithRetry alone
C17_FetchWithRetryOnly == rFn = "fetchWithRetry" => C17_RetryTiming

\* the lengths of the waits alone, of both functions
C17_DelaysOnly == \A k \in 1..Len(rDelays) : rDelays[k] = PrescribedDelay(k)

\* the call has ended after the last permitted attempt has failed
AttemptsExhausted ==
  /\ rPc = "done" /\ Len(rHist) = RetryCeiling
  /\ rHist[Len(rHist)].kind = "throw"

\* C18: when the retry policy has exhausted its attempts, the error
\* surfaced to the caller is the error raised by the last attempt, the same
\* error value with its status and message, for typed HTTP errors and for
\* network failures alike.
C18_LastErrorSurfaced ==
  AttemptsExhausted
    => (rResult.kind = "throw" /\ rResult.err = rHist[Len(rHist)].err)

\* the same statement for last attempts that fail with a typed HTTP error
C18_TypedErrors ==
  (AttemptsExhausted /\ rHist[Len(rHist)].err.typed) => C18_LastErrorSurfaced

\* the same statement of retryWithBackoff alone
C18_RetryWithBackoffOnly == rFn = "retryWithBackoff" => C18_LastErrorSurfaced

(***************************************************************************)
(* HTTP wrappers: apiFetch of the API client and apiV2Fetch                *)
(***************************************************************************)
HttpStatuses == {200, 201, 204, 400, 401, 404, 500, 503}

\* the JSON value of a response body: res.json() rejects ("unparsable"), or
\* it is null, or an object with or without the envelope fields
EnvelopeBody(su, da, me) == [kind |-> "object", success |-> su, data |-> da, message |-> me]
UnparsableBody == [kind |-> "unparsable", success |-> "absent", data |-> "absent", message |-> "absent"]
NullBody == [kind |-> "null", success |-> "absent", data |-> "absent", message |-> "absent"]
Bodies ==
  {UnparsableBody, NullBody}
    \cup {EnvelopeBody(su, da, me) : su \in {"true", "false", "absent"},
                                     da \in {"absent", "d"}, me \in {"absent", "m"}}

\* a response: status, whether content-type says JSON, and its body; a 204
\* carries no body
HttpExchange(st, js, b) == [net |-> FALSE, status |-> st, isJson |-> js, body |-> b]
HttpNetFailure == [net |-> TRUE, status |-> 0, isJson |-> FALSE, body |-> UnparsableBody]
HttpExchanges ==
  {HttpNetFailure}
    \cup {HttpExchange(st, js, b) : st \in HttpStatuses \ {204}, js \in BOOLEAN, b \in Bodies}
    \cup {HttpExchange(204, js, UnparsableBody) : js \in BOOLEAN}

HttpOk(x) == x.status >= 200 /\ x.status <= 299

\* the values a wrapper hands back: what it returns (the envelope fields of
\* the returned object; data "{}" is the empty object, "body" the raw body)
\* or the error it throws (typed errors carry the HTTP status)
HttpReturn(su, da, me) ==
  [kind |-> "return", typed |-> FALSE, status |-> 0, success |-> su, data |-> da, message |-> me]
HttpThrow(ty, st) ==
  [kind |-> "throw", typed |-> ty, status |-> st, success |-> "absent", data |-> "absent", message |-> "absent"]
HttpPending ==
  [kind |-> "pending", typed |-> FALSE, status |-> 0, success |-> "absent", data |-> "absent", message |-> "absent"]

\* `body` of apiFetch after `if (isJson) body = await res.json().catch(() => undefined)`
ApiFetchBody(x) == IF x.isJson /\ x.body.kind # "unparsable" THEN x.body ELSE UnparsableBody

\* JavaScript truthiness of a parsed body (undefined and null are falsy)
BodyTruthy(b) == b.kind = "object"

\* apiFetch of the API client (HttpError on a non-2xx status)
apiFetch(x) ==
  IF x.net THEN HttpThrow(FALSE, 0)
  ELSE LET body == ApiFetchBody(x) IN
       IF ~HttpOk(x) THEN HttpThrow(TRUE, x.status)
       ELSE IF x.status = 204 THEN HttpReturn("true", "{}", "absent")
       ELSE IF BodyTruthy(body) THEN HttpReturn(body.success, body.data, body.message)
       ELSE HttpReturn("true", "{}", "absent")

\* `body` of apiV2Fetch: `isJson ? await response.json().catch(() => ({})) : {}`
ApiV2FetchBody(x) ==
  IF x.isJson /\ x.body.kind # "unparsable" THEN x.body
  ELSE EnvelopeBody("absent", "absent", "absent")

\* apiV2Fetch (ScheduleHttpError; every other error becomes status 0)
apiV2Fetch(x) ==
  IF x.net THEN HttpThrow(TRUE, 0)
  ELSE LET body == ApiV2FetchBody(x) IN
       IF ~HttpOk(x) \/ (body.kind = "object" /\ body.success = "false")
       THEN HttpThrow(TRUE, x.status)
       ELSE IF body.kind = "object" /\ body.success = "true"
       THEN HttpReturn("true", body.data, body.message)
       ELSE HttpReturn("true", "body", "absent")

\* ApiClient.fetchWithRetry, one attempt: its try block on a full response.
\* The body is parsed whatever the content type says; a body that does not
\* parse, or is null, ends in an untyped error; what is returned is data.data.
fetchWithRetryTry(x) ==
  IF x.net THEN HttpThrow(FALSE, 0)
  ELSE IF ~HttpOk(x) THEN HttpThrow(TRUE, x.status)
  ELSE IF x.body.kind # "object" THEN HttpThrow(FALSE, 0)
  ELSE IF x.body.success # "true" THEN HttpThrow(TRUE, x.status)
  ELSE HttpReturn("absent", x.body.data, "absent")

CallApiFetch ==
  /\ hWrapper = "none"
  /\ hWrapper' = "apiFetch"
  /\ hOut' = apiFetch(hResp)
  /\ UNCHANGED <<hResp, tokVars, tsVars, retryVars, edgeVars, authVars, svcVars, uiVars>>

CallApiV2Fetch ==
  /\ hWrapper = "none"
  /\ hWrapper' = "apiV2Fetch"
  /\ hOut' = apiV2Fetch(hResp)
  /\ UNCHANGED <<hResp, tokVars, tsVars, retryVars, edgeVars, authVars, svcVars, uiVars>>

CallFetchWithRetry ==
  /\ hWrapper = "none"
  /\ hWrapper' = "fetchWithRetry"
  /\ hOut' = fetchWithRetryTry(hResp)
  /\ UNCHANGED <<hResp, tokVars, tsVars, retryVars, edgeVars, authVars, svcVars, uiVars>>

NextHttp == CallApiFetch \/ CallApiV2Fetch \/ CallFetchWithRetry

\* a response whose JSON body has success explicitly false
SuccessExplicitlyFalse(x) ==
  ~x.net /\ x.isJson /\ x.body.kind = "object" /\ x.body.success = "false"

\* C10: every response whose HTTP status is outside 2xx, and every response
\* whose JSON body has success explicitly false, makes the wrapper throw the
\* typed HTTP error; none is returned to the caller as a success value.
C10_ErrorClassification ==
  (hWrapper # "none" /\ ~hResp.net /\ (~HttpOk(hResp) \/ SuccessExplicitlyFalse(hResp)))
    => (hOut.kind = "throw" /\ hOut.typed /\ hOut.status = hResp.status)

\* the same statement of apiV2Fetch alone
C10_ApiV2FetchOnly == hWrapper = "apiV2Fetch" => C10_ErrorClassification

\* a 2xx response with a JSON object body whose success is not false
SuccessResponse(x) ==
  ~x.net /\ HttpOk(x) /\ x.isJson /\ x.body.kind = "object" /\ x.body.success # "false"

\* the data the caller is to get: the envelope's data field when the body is
\* an envelope (success present), the raw body when it has none of the
\* envelope fields, either of them when it has data or message only
ExpectedData(b) ==
  IF b.success # "absent" THEN {b.data}
  ELSE IF b.data = "absent" /\ b.message = "absent" THEN {"body"}
  ELSE {b.data, "body"}

\* C11: for every response with a 2xx status whose envelope does not have
\* success false, the wrapper returns a result whose data is the envelope's
\* data field, or the raw body when the body has no envelope field.
C11_SuccessData ==
  (hWrapper # "none" /\ SuccessResponse(hResp))
    => (hOut.kind = "return" /\ hOut.data \in ExpectedData(hResp.body))

\* the same statement of apiV2Fetch alone
C11_ApiV2FetchOnly == hWrapper = "apiV2Fetch" => C11_SuccessData

(***************************************************************************)
(* Edge interceptor (middleware)                                           *)
(***************************************************************************)
StartsWith(s, pre) == Len(s) >= Len(pre) /\ SubSeq(s, 1, Len(pre)) = pre

Includes(s, c) == \E i \in 1..Len(s) : s[i] = c

Path_admin == <<"/", "a", "d", "m", "i", "n">>
Path_adminReports == <<"/", "a", "d", "m", "i", "n", "/", "r", "e", "p", "o", "r", "t", "s">>
Path_assist == <<"/", "a", "s", "s", "i", "s", "t">>
Path_student == <<"/", "s", "t", "u", "d", "e", "n", "t">>
Path_next == <<"/", "_", "n", "e", "x", "t">>
Path_favicon == <<"/", "f", "a", "v", "i", "c", "o", "n">>
Path_images == <<"/", "i", "m", "a", "g", "e", "s">>
Path_manifest == <<"/", "m", "a", "n", "i", "f", "e", "s", "t", ".", "w", "e", "b", "m", "a", "n", "i", "f", "e", "s", "t">>
Path_robots == <<"/", "r", "o", "b", "o", "t", "s", ".", "t", "x", "t">>
Path_sitemap == <<"/", "s", "i", "t", "e", "m", "a", "p", ".", "x", "m", "l">>

\* the request paths of the model
EdgePaths ==
  {<<"/", "a", "d", "m", "i", "n">>,
   <<"/", "a", "d", "m", "i", "n", "/", "r", "e", "p", "o", "r", "t", "s">>,
   <<"/", "a", "d", "m", "i", "n", "/", "u", "s", "e", "r", "s", "/", "a", ".", "b">>,
   <<"/", "a", "s", "s", "i", "s", "t">>,
   <<"/", "a", "s", "s", "i", "s", "t", "/", "p", "r", "o", "f", "i", "l", "e">>,
   <<"/", "s", "t", "u", "d", "e", "n", "t">>,
   <<"/", "s", "t", "u", "d", "e", "n", "t", "/", "x", ".", "y">>,
   <<"/", "a", "d", "m", "i", "n", "i", "s", "t", "r", "a", "t", "o", "r">>,
   <<"/">>,
   <<"/", "_", "n", "e", "x", "t", "/", "a">>}

isAdminRoute(pathname) == pathname = Path_admin \/ StartsWith(pathname, Path_admin \o <<"/">>)

isAssistRoute(pathname) == pathname = Path_assist \/ StartsWith(pathname, Path_assist \o <<"/">>)

isStudentRoute(pathname) == pathname = Path_student \/ StartsWith(pathname, Path_student \o <<"/">>)

\* config.matcher: the interceptor runs only for these paths
MatcherMatches(pathname) ==
  isAdminRoute(pathname) \/ isAssistRoute(pathname) \/ isStudentRoute(pathname)

\* the first test of middleware: static files and manifest are passed through
StaticSkip(pathname) ==
  \/ StartsWith(pathname, Path_next)
  \/ StartsWith(pathname, Path_favicon)
  \/ StartsWith(pathname, Path_images)
  \/ pathname = Path_manifest
  \/ pathname = Path_robots
  \/ pathname = Path_sitemap
  \/ Includes(pathname, ".")

\* claims of a token: each of role, type, is_admin present or "absent"
ClaimRoles == {"absent", "", "admin", "assistant", "student", "guest"}
ClaimTypes == {"absent", "admin", "student"}
ClaimIsAdmin == {"absent", "true", "false"}
Claims(r, t, a) == [role |-> r, type |-> t, is_admin |-> a]
ClaimSets == {Claims(r, t, a) : r \in ClaimRoles, t \in ClaimTypes, a \in ClaimIsAdmin}
NoClaims == [role |-> "null", type |-> "null", is_admin |-> "null"]

\* the COOKIE_NAME cookie of a request: absent, empty, or a token that does
\* or does not pass jwtVerify (signature, expiry, algorithm) under the
\* configured key and that carries some claims
ReqCookie(p, e, v, c) == [present |-> p, empty |-> e, verifies |-> v, claims |-> c]
NoReqCookie == ReqCookie(FALSE, TRUE, FALSE, NoClaims)
EmptyReqCookie == ReqCookie(TRUE, TRUE, FALSE, NoClaims)
ReqCookies ==
  {NoReqCookie, EmptyReqCookie}
    \cup {ReqCookie(TRUE, FALSE, v, c) : v \in BOOLEAN, c \in ClaimSets}

\* `!token` of middleware
NoTokenInRequest(ck) == ~ck.present \/ ck.empty

\* a verifyToken that decodes the claims without checking the signature
verifyToken_Unverified(ck, keyCfg) ==
  IF keyCfg = "none" THEN NoClaims ELSE ck.claims

verifyToken(ck, keyCfg) ==
  IF keyCfg = "jwks" THEN (IF ck.verifies THEN ck.claims ELSE NoClaims)
  ELSE IF keyCfg = "none" THEN NoClaims
  ELSE (IF ck.verifies THEN ck.claims ELSE NoClaims)

\* JavaScript truthiness of a claim string
ClaimTruthy(v) == v # "absent" /\ v # ""

\* resolvedRole of middleware; "undefined" when none of the claims gives one
ResolveRole(claims) ==
  IF ClaimTruthy(claims.role) THEN claims.role
  ELSE IF ClaimTruthy(claims.type) THEN claims.type
  ELSE IF claims.is_admin # "absent"
       THEN (IF claims.is_admin = "true" THEN "admin" ELSE "assistant")
  ELSE "undefined"

\* an authorization that does not normalize "student"
isAuthorizedForPath_NoNormalize(path, role) ==
  IF role = "undefined" \/ role = "" THEN FALSE
  ELSE IF isAdminRoute(path) THEN role = "admin"
  ELSE IF isStudentRoute(path) \/ isAssistRoute(path)
  THEN role = "assistant" \/ role = "admin"
  ELSE TRUE

isAuthorizedForPath(path, role) ==
  IF role = "undefined" \/ role = "" THEN FALSE
  ELSE LET normalized == IF role = "student" THEN "assistant" ELSE role IN
       IF isAdminRoute(path) THEN normalized = "admin"
       ELSE IF isStudentRoute(path) \/ isAssistRoute(path)
       THEN normalized = "assistant" \/ normalized = "admin"
       ELSE TRUE

EdgeNext == [kind |-> "next", to |-> "-"]
RedirectLogin == [kind |-> "redirect", to |-> "/auth/login"]
RedirectUnauthorized == [kind |-> "redirect", to |-> "/unauthorized"]
EdgePending == [kind |-> "pending", to |-> "-"]

\* an interceptor that asks for a verified token before its mock bypass
middleware_TokenFirst(mode, devRole, keyCfg, pathname, ck) ==
  IF StaticSkip(pathname) THEN EdgeNext
  ELSE IF ~(isAdminRoute(pathname) \/ isAssistRoute(pathname) \/ isStudentRoute(pathname))
  THEN EdgeNext
  ELSE IF NoTokenInRequest(ck) THEN RedirectLogin
  ELSE LET claims == verifyToken(ck, keyCfg) IN
       IF claims = NoClaims THEN RedirectLogin
       ELSE IF mode = "mock"
       THEN LET role == IF devRole = "admin" THEN "admin" ELSE "assistant" IN
            IF ~isAuthorizedForPath(pathname, role) THEN RedirectUnauthorized ELSE EdgeNext
       ELSE IF ~isAuthorizedForPath(pathname, ResolveRole(claims)) THEN RedirectUnauthorized
       ELSE EdgeNext

middleware(mode, devRole, keyCfg, pathname, ck) ==
  IF StaticSkip(pathname) THEN EdgeNext
  ELSE IF ~(isAdminRoute(pathname) \/ isAssistRoute(pathname) \/ isStudentRoute(pathname))
  THEN EdgeNext
  ELSE IF mode = "mock"
  THEN LET role == IF devRole = "admin" THEN "admin" ELSE "assistant" IN
       IF ~isAuthorizedForPath(pathname, role) THEN RedirectUnauthorized ELSE EdgeNext
  ELSE IF NoTokenInRequest(ck) THEN RedirectLogin
  ELSE LET claims == verifyToken(ck, keyCfg) IN
       IF claims = NoClaims THEN RedirectLogin
       ELSE IF ~isAuthorizedForPath(pathname, ResolveRole(claims)) THEN RedirectUnauthorized
       ELSE EdgeNext

\* a request reaches the application: the interceptor runs when the matcher
\* selects the path, otherwise the request passes straight through
EdgeRequest ==
  /\ eResp = EdgePending
  /\ eResp' = IF MatcherMatches(ePath)
              THEN middleware(eMode, eDevRole, eKeyCfg, ePath, eCookie)
              ELSE EdgeNext
  /\ UNCHANGED <<eMode, eDevRole, eKeyCfg, ePath, eCookie, tokVars, tsVars, retryVars, httpVars, authVars, svcVars, uiVars>>

NextEdge == EdgeRequest

\* the paths the interceptor protects: under /admin, /assist or /student
ProtectedPath(pathname) ==
  isAdminRoute(pathname) \/ isAssistRoute(pathname) \/ isStudentRoute(pathname)

\* the request carries a token and that token fails signature / expiry
\* verification
TokenFailsVerification == eCookie.present /\ ~eCookie.empty /\ ~eCookie.verifies

NoUser == [id |-> "null", role |-> "null"]

\* the profile objects a server sends: each field a value or "absent"
Me(i, u, r, a) == [id |-> i, username |-> u, role |-> r, is_admin |-> a]
NoMe == Me("null", "null", "null", "null")
MeShapes ==
  {Me("u1", "absent", "admin", "absent"),
   Me("absent", "u1", "assistant", "true"),
   Me("u1", "absent", "student", "false"),
   Me("absent", "absent", "absent", "absent")}

\* a normalization that looks at the is_admin flag only
normalizeUser_FlagOnly(me) ==
  [id |-> IF me.id # "absent" THEN me.id
          ELSE IF me.username # "absent" THEN me.username ELSE "user",
   role |-> IF me.is_admin = "true" THEN "admin" ELSE "assistant"]

normalizeUser(me) ==
  [id |-> IF me.id # "absent" THEN me.id
          ELSE IF me.username # "absent" THEN me.username ELSE "user",
   role |-> IF me.is_admin = "true" THEN "admin"
            ELSE IF me.role = "admin" THEN "admin" ELSE "assistant"]

MockUser == [id |-> "mock-user", role |-> authDevRole]

\* a guard that admits the exact role only
RequireRoleAllow_Exact(role, u) ==
  IF u = NoUser THEN FALSE ELSE u.role = role

\* RequireRole: `allow`, as computed in the render body
RequireRoleAllow(role, u) ==
  IF u = NoUser THEN FALSE
  ELSE IF role = "assistant" THEN (u.role = "assistant" \/ u.role = "admin")
  ELSE u.role = role

\* RequireRole: what it renders
RequireRoleRender(role, u, ld) ==
  IF ld THEN "spinner"
  ELSE IF RequireRoleAllow(role, u) THEN "children" ELSE "null"

\* RequireRole: where its effect redirects to ("none": nowhere)
RequireRoleRedirect(role, u, ld) ==
  IF ld THEN "none"
  ELSE IF u = NoUser THEN "/auth/login"
  ELSE IF ~(IF role = "assistant" THEN (u.role = "assistant" \/ u.role = "admin")
            ELSE u.role = role)
       THEN "/unauthorized"
       ELSE "none"

RequiredRoles == {"admin", "assistant", "student"}

\* the token the backend issues at login / registration
ServerToken == <<"%", "a">>

\* What a backend exchange ends in.  net: the fetch rejects; ok: status 2xx;
\* success: the envelope field ("true", "false", "absent"); tokenAt / userAt:
\* where the body carries the token and the user ("none", "top" for
\* body.token / body.user, "data" for body.data.token / body.data.user);
\* me: the profile object.
Outcome(n, o, su, ta, ua, m) ==
  [net |-> n, ok |-> o, success |-> su, tokenAt |-> ta, userAt |-> ua, me |-> m]
NetOutcome == Outcome(TRUE, FALSE, "absent", "none", "none", NoMe)
FailOutcomes ==
  {Outcome(FALSE, o, su, "none", "none", NoMe) :
     o \in BOOLEAN, su \in {"true", "false", "absent"}} \ {Outcome(FALSE, TRUE, "true", "none", "none", NoMe)}
NoOutcome == Outcome(FALSE, FALSE, "none", "none", "none", NoMe)

\* responses of POST /auth/login
LoginOutcomes ==
  {NetOutcome} \cup FailOutcomes
    \cup {Outcome(FALSE, TRUE, "true", ta, "none", NoMe) : ta \in {"none", "top", "data"}}
    \cup {Outcome(FALSE, TRUE, "true", ta, "data", m) :
            ta \in {"none", "top", "data"}, m \in MeShapes}
    \cup {Outcome(FALSE, TRUE, "true", ta, "top", Me("u1", "absent", "admin", "absent")) :
            ta \in {"none", "top", "data"}}

\* responses of GET /me
MeOutcomes ==
  {NetOutcome, Outcome(FALSE, FALSE, "absent", "none", "none", NoMe),
   Outcome(FALSE, TRUE, "false", "none", "none", NoMe)}
    \cup {Outcome(FALSE, TRUE, "true", "none", "data", m) : m \in MeShapes}
    \cup {Outcome(FALSE, TRUE, "absent", "none", "data", Me("u1", "absent", "admin", "absent"))}

\* responses of POST /auth/register
RegisterOutcomes ==
  {NetOutcome, Outcome(FALSE, FALSE, "absent", "none", "none", NoMe),
   Outcome(FALSE, TRUE, "false", "none", "none", NoMe)}
    \cup {Outcome(FALSE, TRUE, "true", ta, "none", NoMe) : ta \in {"none", "top", "data"}}

\* `a || b` on the location of a field
TokenOf(o, first, second) ==
  IF o.tokenAt = first \/ o.tokenAt = second THEN ServerToken ELSE NoToken

UserOf(o, first, second) ==
  IF o.userAt = first \/ o.userAt = second THEN o.me ELSE NoMe

\* what a function of api.ts or of the session route hands back
Result(su, t, u) == [success |-> su, token |-> t, user |-> u]

\* api.ts getMe
getMe(o) ==
  IF o.net THEN Result(FALSE, NoToken, NoMe)
  ELSE IF ~o.ok \/ o.success = "false" THEN Result(FALSE, NoToken, NoMe)
  ELSE Result(TRUE, NoToken, o.me)

\* api.ts loginV2, apart from its storeToken call
loginV2(o) ==
  IF o.net THEN Result(FALSE, NoToken, NoMe)
  ELSE IF ~o.ok \/ o.success = "false" THEN Result(FALSE, NoToken, NoMe)
  ELSE Result(TRUE, TokenOf(o, "top", "data"), UserOf(o, "top", "data"))

\* a register that takes every answer of the server for a success
register_AnyAnswer(o) ==
  IF o.net THEN Result(FALSE, NoToken, NoMe)
  ELSE Result(TRUE, TokenOf(o, "top", "data"), NoMe)

\* api.ts register, apart from its storeToken call
register(o) ==
  IF o.net THEN Result(FALSE, NoToken, NoMe)
  ELSE IF ~o.ok \/ o.success = "false" THEN Result(FALSE, NoToken, NoMe)
  ELSE Result(TRUE, TokenOf(o, "top", "data"), NoMe)

\* the error text of a failed api.ts register, which register() of the auth
\* context hands on (`res.error || "Registration failed"`)
registerError(o) ==
  IF o.net THEN "Network error" ELSE "data.message || Registration failed"

\* POST of the session route: the JSON it answers with for a backend
\* response o (a backend that cannot be reached gives the 500 answer)
SessionPost(o) ==
  IF o.net THEN Result(FALSE, NoToken, NoMe)
  ELSE IF ~o.ok \/ o.success # "true" THEN Result(FALSE, NoToken, NoMe)
  ELSE Result(TRUE, TokenOf(o, "data", "data"), UserOf(o, "data", "top"))

\* POST of the session route: the cookies its answer sets in the browser
SessionPostCookies(jar, o) ==
  LET r == SessionPost(o) IN
  IF r.success /\ Truthy(r.token)
  THEN [jar EXCEPT !["auth_token"] = HttpOnlyCookie(encodeURIComponent(r.token)),
                   !["access_token"] = VisibleCookie(encodeURIComponent(r.token))]
  ELSE jar

\* DELETE of the session route: the cookies its answer removes
SessionDeleteCookies(jar) ==
  [jar EXCEPT !["auth_token"] = NoCookie, !["access_token"] = NoCookie]

Event(op, o, calls, ret, hadToken, wasAuth, wasMounted) ==
  [op |-> op, o |-> o, calls |-> calls, ret |-> ret,
   hadToken |-> hadToken, wasAuth |-> wasAuth, wasMounted |-> wasMounted]
NoEvent == Event("none", NoOutcome, {}, "none", FALSE, FALSE, TRUE)

\* an event of login, register, logout: no fact of the state before it is kept
Ev(op, o, calls, ret) == Event(op, o, calls, ret, FALSE, FALSE, TRUE)

\* an event of bootstrap keeps whether getToken() gave a token and whether
\* the effect was still mounted
BootEv(op, o, calls) == Event(op, o, calls, "none", Truthy(getToken), FALSE, mounted)

\* an event of an API call keeps whether a user was signed in
CallEv(op, o, calls, ret) == Event(op, o, calls, ret, Truthy(getToken), user # NoUser, TRUE)

\* a state setter of a component that is gone changes nothing
SetUser(u) == IF mounted THEN u ELSE user

\* how many of login, register, logout and API call are pending
MaxInFlight == 2
InFlight ==
  (IF pcLogin = "idle" THEN 0 ELSE 1) + (IF pcReg = "idle" THEN 0 ELSE 1)
    + (IF pcLogout = "idle" THEN 0 ELSE 1) + (IF pcCall = "idle" THEN 0 ELSE 1)

nonAuth == <<tsVars, retryVars, httpVars, edgeVars, svcVars, uiVars>>
authConfig == <<authMode, authDevRole, variant, cookieName, lsOK>>

\* history of logout: nothing to remember, and no history kept at all
NotLoggedOut == {}
Untracked == {"untracked"}

\* logout() is invoked: the calls that are in flight at that moment
LoggedOut ==
  IF afterLogout = Untracked THEN Untracked
  ELSE (IF pcBoot # "done" THEN {"boot"} ELSE {})
         \cup (IF pcLogin # "idle" THEN {"login"} ELSE {})
         \cup (IF pcReg # "idle" THEN {"register"} ELSE {})

\* a call ends
Settled(op) == afterLogout \ {op}

\* a bootstrap whose finally block is missing
BootFinally_Missing(l) == l

\* the finally block of bootstrap(): if (mounted) setLoading(false)
BootFinally(l) == IF mounted THEN FALSE ELSE l

\* bootstrap(), up to its first network call
BootStart ==
  /\ pcBoot = "start"
  /\ IF authMode = "mock"
     THEN /\ pcBoot' = "done"
          /\ IF mounted THEN user' = MockUser /\ loading' = FALSE
                        ELSE UNCHANGED <<user, loading>>
          /\ ev' = BootEv("boot_mock", NoOutcome, {})
     ELSE IF ~Truthy(getToken)
     THEN /\ pcBoot' = "done"
          /\ IF mounted THEN user' = NoUser /\ loading' = FALSE
                        ELSE UNCHANGED <<user, loading>>
          /\ ev' = BootEv("boot_start", NoOutcome, {})
     ELSE /\ pcBoot' = "me"
          /\ UNCHANGED <<user, loading>>
          /\ ev' = BootEv("boot_start", NoOutcome, {"GET /me"})
  /\ afterLogout' = IF pcBoot' = "done" THEN Settled("boot") ELSE afterLogout
  /\ UNCHANGED <<cookies, localStore, mounted, pcLogin, pcReg, pcLogout, pcCall,
                 logoutTrace, authConfig, nonAuth>>

\* bootstrap(), from the answer of getMe to its end
BootMe ==
  /\ pcBoot = "me"
  /\ \E o \in MeOutcomes :
       LET result == getMe(o) IN
       /\ ev' = BootEv("boot_me", o, {})
       /\ IF ~mounted
          THEN UNCHANGED <<user, loading, cookies, localStore>>
          ELSE IF result.success /\ result.user # NoMe
          THEN /\ user' = normalizeUser(result.user)
               /\ loading' = BootFinally(loading)
               /\ UNCHANGED <<cookies, localStore>>
          ELSE /\ cookies' = clearTokenCookies(cookies, cookieName)
               /\ localStore' = clearTokenLocal(localStore, lsOK)
               /\ user' = NoUser
               /\ loading' = BootFinally(loading)
  /\ pcBoot' = "done"
  /\ afterLogout' = Settled("boot")
  /\ UNCHANGED <<mounted, pcLogin, pcReg, pcLogout, pcCall, logoutTrace, authConfig, nonAuth>>

\* login(), up to its network call
LoginStart ==
  /\ pcLogin = "idle" /\ mounted
  /\ authMode = "mock" \/ InFlight < MaxInFlight
  /\ IF authMode = "mock"
     THEN /\ user' = MockUser
          /\ ev' = Ev("login_mock", NoOutcome, {}, "success")
          /\ UNCHANGED pcLogin
     ELSE /\ pcLogin' = "wait"
          /\ ev' = Ev("login_start", NoOutcome,
                      {IF variant = "session" THEN "POST /api/session" ELSE "POST /auth/login"},
                      "none")
          /\ UNCHANGED user
  /\ afterLogout' = IF authMode = "mock" THEN Settled("login") ELSE afterLogout
  /\ UNCHANGED <<cookies, localStore, loading, mounted, pcBoot, pcReg, pcLogout, pcCall,
                 logoutTrace, authConfig, nonAuth>>

\* what login() makes of the answer: the session route's JSON (auth.tsx) or
\* the result of ApiV2.loginV2 (the variant that calls the backend directly)
LoginAnswer(o) ==
  IF variant = "session"
  THEN SessionPost(o)
  ELSE loginV2(o)

\* login(), from the answer to its return
LoginResponse ==
  /\ pcLogin = "wait"
  /\ \E o \in LoginOutcomes, browserNet \in BOOLEAN :
       LET res == LoginAnswer(o)
           jar1 == IF variant = "session" /\ ~browserNet
                   THEN SessionPostCookies(cookies, o) ELSE cookies
       IN
       IF browserNet /\ variant = "session"
       THEN \* fetch('/api/session') itself rejects
            /\ ev' = Ev("login_resp", NetOutcome, {}, "fail")
            /\ UNCHANGED <<user, cookies, localStore>>
       ELSE IF ~res.success
       THEN /\ ev' = Ev("login_resp", o, {}, "fail")
            /\ cookies' = jar1
            /\ UNCHANGED <<user, localStore>>
       ELSE /\ IF Truthy(res.token)
               THEN /\ cookies' = storeTokenCookies(jar1, cookieName, res.token)
                    /\ localStore' = storeTokenLocal(localStore, lsOK, res.token)
               ELSE /\ cookies' = jar1
                    /\ UNCHANGED localStore
            /\ IF res.user # NoMe
               THEN /\ user' = SetUser(normalizeUser(res.user))
                    /\ ev' = Ev("login_resp", o, {}, "success")
               ELSE /\ UNCHANGED user
                    /\ ev' = Ev("login_resp", o, {}, "fail")
  /\ pcLogin' = "idle"
  /\ afterLogout' = Settled("login")
  /\ UNCHANGED <<loading, mounted, pcBoot, pcReg, pcLogout, pcCall, logoutTrace,
                 authConfig, nonAuth>>

\* register(), up to its network call
RegisterStart ==
  /\ pcReg = "idle" /\ mounted
  /\ authMode = "mock" \/ InFlight < MaxInFlight
  /\ IF authMode = "mock"
     THEN /\ user' = MockUser
          /\ ev' = Ev("register_mock", NoOutcome, {}, "success")
          /\ UNCHANGED pcReg
     ELSE /\ pcReg' = "reg"
          /\ ev' = Ev("register_start", NoOutcome, {"POST /auth/register"}, "none")
          /\ UNCHANGED user
  /\ afterLogout' = IF authMode = "mock" THEN Settled("register") ELSE afterLogout
  /\ UNCHANGED <<cookies, localStore, loading, mounted, pcBoot, pcLogin, pcLogout, pcCall,
                 logoutTrace, authConfig, nonAuth>>

\* register(), from the answer of ApiV2.register to the getMe call
RegisterResponse ==
  /\ pcReg = "reg"
  /\ \E o \in RegisterOutcomes :
       LET res == register(o) IN
       IF ~res.success
       THEN /\ pcReg' = "idle"
            /\ ev' = Ev("register_resp", o, {}, registerError(o))
            /\ UNCHANGED <<cookies, localStore>>
       ELSE /\ IF Truthy(res.token)
               THEN /\ cookies' = storeTokenCookies(cookies, cookieName, res.token)
                    /\ localStore' = storeTokenLocal(localStore, lsOK, res.token)
               ELSE UNCHANGED <<cookies, localStore>>
            /\ pcReg' = "me"
            /\ ev' = Ev("register_resp", o, {"GET /me"}, "none")
  /\ afterLogout' = IF pcReg' = "idle" THEN Settled("register") ELSE afterLogout
  /\ UNCHANGED <<user, loading, mounted, pcBoot, pcLogin, pcLogout, pcCall, logoutTrace,
                 authConfig, nonAuth>>

\* register(), from the answer of getMe to its return
RegisterMe ==
  /\ pcReg = "me"
  /\ \E o \in MeOutcomes :
       LET me == getMe(o) IN
       IF me.success /\ me.user # NoMe
       THEN /\ user' = SetUser(normalizeUser(me.user))
            /\ ev' = Ev("register_me", o, {}, "success")
       ELSE /\ UNCHANGED user
            /\ ev' = Ev("register_me", o, {}, "fail")
  /\ pcReg' = "idle"
  /\ afterLogout' = Settled("register")
  /\ UNCHANGED <<cookies, localStore, loading, mounted, pcBoot, pcLogin, pcLogout, pcCall,
                 logoutTrace, authConfig, nonAuth>>

\* logout(), up to `await import('./api')`
LogoutStart ==
  /\ pcLogout = "idle" /\ mounted
  /\ authMode = "mock" \/ InFlight < MaxInFlight
  /\ user' = NoUser
  /\ IF authMode = "mock"
     THEN /\ ev' = Ev("logout_mock", NoOutcome, {}, "resolved")
          /\ UNCHANGED <<pcLogout, logoutTrace>>
     ELSE /\ pcLogout' = "import"
          /\ logoutTrace' = <<"setUser(null)">>
          /\ ev' = Ev("logout_start", NoOutcome, {}, "none")
  /\ afterLogout' = LoggedOut
  /\ UNCHANGED <<cookies, localStore, loading, mounted, pcBoot, pcLogin, pcReg, pcCall,
                 authConfig, nonAuth>>

\* the same step with the server request issued before anything else
LogoutClear_RequestFirst ==
  /\ pcLogout = "import"
  /\ cookies' = clearTokenCookies(cookies, cookieName)
  /\ localStore' = clearTokenLocal(localStore, lsOK)
  /\ pcLogout' = "wait"
  /\ logoutTrace' = <<"request">> \o logoutTrace \o <<"clearToken">>
  /\ ev' = Ev("logout_clear", NoOutcome,
              {IF variant = "session" THEN "DELETE /api/session" ELSE "POST /auth/logout"},
              IF variant = "session" THEN "none" ELSE "resolved")
  /\ UNCHANGED <<user, loading, mounted, pcBoot, pcLogin, pcReg, pcCall, authConfig, afterLogout, nonAuth>>

\* logout(), from the import to the server request: clearToken(), then the
\* request is issued (awaited in auth.tsx, left running in the other variant,
\* whose logout() returns here)
LogoutClear ==
  /\ pcLogout = "import"
  /\ cookies' = clearTokenCookies(cookies, cookieName)
  /\ localStore' = clearTokenLocal(localStore, lsOK)
  /\ pcLogout' = "wait"
  /\ logoutTrace' = logoutTrace \o <<"clearToken", "request">>
  /\ ev' = Ev("logout_clear", NoOutcome,
              {IF variant = "session" THEN "DELETE /api/session" ELSE "POST /auth/logout"},
              IF variant = "session" THEN "none" ELSE "resolved")
  /\ UNCHANGED <<user, loading, mounted, pcBoot, pcLogin, pcReg, pcCall, authConfig, afterLogout, nonAuth>>

LogoutOutcomes == {"ok", "http500", "net"}

\* logout(), from the answer of the server request on.  auth.tsx: DELETE
\* /api/session, whose answer removes both cookies; a rejected fetch is caught
\* and logged.  Other variant: ApiV2.logout swallows the error and, in its
\* finally, runs clearToken() and deleteCookie('auth_token').
LogoutResponse ==
  /\ pcLogout = "wait"
  /\ \E o \in LogoutOutcomes :
       /\ cookies' = IF o = "ok" /\ variant = "session" THEN SessionDeleteCookies(cookies)
                     ELSE IF variant = "session" THEN cookies
                     ELSE deleteCookie(clearTokenCookies(cookies, cookieName), "auth_token")
       /\ localStore' = IF variant = "session" THEN localStore
                        ELSE clearTokenLocal(localStore, lsOK)
       /\ ev' = Ev("logout_resp", Outcome(o = "net", o = "ok", "absent", "none", "none", NoMe),
                   {}, "resolved")
  /\ pcLogout' = "idle"
  /\ UNCHANGED <<user, loading, mounted, pcBoot, pcLogin, pcReg, pcCall, logoutTrace,
                 authConfig, afterLogout, nonAuth>>

\* an API call made through the HTTP wrapper is issued
ApiCallStart ==
  /\ pcCall = "idle" /\ mounted
  /\ InFlight < MaxInFlight
  /\ pcCall' = "wait"
  /\ ev' = CallEv("call_start", NoOutcome, {"api"}, "none")
  /\ UNCHANGED <<cookies, localStore, user, loading, mounted, pcBoot, pcLogin, pcReg,
                 pcLogout, logoutTrace, authConfig, afterLogout, nonAuth>>

CallStatuses == {200, 401, 500}

\* the page is left for another one: every pending continuation is gone and
\* the provider bootstraps again over the same browser stores
PageLoad ==
  /\ user' = NoUser /\ loading' = TRUE /\ mounted' = TRUE
  /\ pcBoot' = "start" /\ pcLogin' = "idle" /\ pcReg' = "idle" /\ pcLogout' = "idle"
  /\ pcCall' = "idle" /\ logoutTrace' = <<>>
  /\ afterLogout' = afterLogout \cap Untracked

\* the answer of the API call.  The wrapper throws HttpError(status) for a
\* non-2xx status; the caller either keeps it as its own error state or hands
\* it to useApiError.handleError, which on 401 assigns window.location.href.
ApiCallResponse ==
  /\ pcCall = "wait"
  /\ \E st \in CallStatuses, handler \in {"hook", "useApiError"} :
       /\ ev' = CallEv(IF st = 401 THEN "call_401" ELSE "call_resp",
                   Outcome(FALSE, st = 200, "absent", "none", "none", NoMe), {}, handler)
       /\ IF st = 401 /\ handler = "useApiError"
          THEN PageLoad
          ELSE /\ pcCall' = "idle"
               /\ UNCHANGED <<user, loading, mounted, pcBoot, pcLogin, pcReg, pcLogout,
                              logoutTrace, afterLogout>>
  /\ UNCHANGED <<cookies, localStore, authConfig, nonAuth>>

\* the cleanup of the bootstrap effect, while bootstrap() is still running
Unmount ==
  /\ mounted /\ pcBoot # "done"
  /\ mounted' = FALSE
  /\ ev' = Event("unmount", NoOutcome, {}, "none", FALSE, FALSE, FALSE)
  /\ UNCHANGED <<cookies, localStore, user, loading, pcBoot, pcLogin, pcReg, pcLogout,
                 pcCall, logoutTrace, authConfig, afterLogout, nonAuth>>

NextAuth ==
  \/ BootStart \/ BootMe
  \/ LoginStart \/ LoginResponse
  \/ RegisterStart \/ RegisterResponse \/ RegisterMe
  \/ LogoutStart \/ LogoutClear \/ LogoutResponse
  \/ ApiCallStart \/ ApiCallResponse
  \/ Unmount

(***************************************************************************)
(* Properties of the auth session context                                  *)
(***************************************************************************)
RoleAdmitted(R, u) ==
  /\ u # NoUser
  /\ IF R = "assistant" THEN u.role \in {"assistant", "admin"} ELSE u.role = R

\* C2: once bootstrap has finished (loading = FALSE), a guard requiring
\* "assistant" renders its children exactly when a user is signed in with
\* role "assistant" or "admin", and a guard requiring any other role R
\* renders them exactly when the signed-in user's role is R.
C2_RoleGuard ==
  ~loading =>
    \A R \in RequiredRoles :
      (RequireRoleRender(R, user, loading) = "children") <=> RoleAdmitted(R, user)

C2_Witness ==
  /\ ~loading /\ user # NoUser /\ user.role = "admin" /\ authMode # "mock"
  /\ RequireRoleRender("assistant", user, loading) = "children"
  /\ RequireRoleRender("student", user, loading) = "null"

\* C4: outside mock mode, when an API call made while a user was signed in
\* is answered with 401, the token store holds no token and user is null
\* right after the answer has been handled.
C4_UnauthorizedClearsSession ==
  (authMode # "mock" /\ ev.op = "call_401" /\ ev.wasAuth)
    => (~Truthy(getToken) /\ user = NoUser)

\* the "who am I" call succeeded: it was answered, with a 2xx status and an
\* envelope that is not a failure
MeSucceeded(o) == ~o.net /\ o.ok /\ o.success # "false"

\* C6: outside mock mode and while mounted, bootstrap with no stored token
\* ends anonymous (user null, loading false) without a network call; with a
\* stored token it calls "who am I"; a successful answer leaves the
\* normalized user signed in; any failure leaves the token store without a
\* token and the context anonymous.
C6_Bootstrap ==
  (authMode # "mock" /\ ev.wasMounted) =>
    /\ (ev.op = "boot_start" /\ ~ev.hadToken)
         => (user = NoUser /\ ~loading /\ ev.calls = {})
    /\ (ev.op = "boot_start" /\ ev.hadToken) => ev.calls = {"GET /me"}
    /\ (ev.op = "boot_me" /\ MeSucceeded(ev.o))
         => (user = normalizeUser(ev.o.me) /\ ~loading)
    /\ (ev.op = "boot_me" /\ ~MeSucceeded(ev.o))
         => (user = NoUser /\ ~loading /\ ~Truthy(getToken))

\* the login endpoint answered {success: true, user: {role: "admin"}}
AdminLoginAnswer(o) ==
  ~o.net /\ o.ok /\ o.success = "true" /\ o.userAt # "none" /\ o.me.role = "admin"

\* C7: when the login endpoint answers {success: true, user: {role: "admin"}},
\* login returns success, the signed-in user has role admin, and a guard
\* requiring "admin" renders its children as soon as loading is false.
C7_AdminLogin ==
  (ev.op = "login_resp" /\ mounted /\ AdminLoginAnswer(ev.o)) =>
    /\ ev.ret = "success"
    /\ user # NoUser /\ user.role = "admin"
    /\ RequireRoleAllow("admin", user)
    /\ (loading \/ RequireRoleRender("admin", user, loading) = "children")

C7_Witness ==
  /\ ev.op = "login_resp" /\ mounted /\ AdminLoginAnswer(ev.o) /\ variant = "session"
  /\ ~loading /\ RequireRoleRender("admin", user, loading) = "children"

\* C8: outside mock mode, when login returns success: true, the token the
\* login endpoint returned is what the token store gives back and user is
\* the normalized user of the answer.
C8_LoginPersistsFirst ==
  (ev.op = "login_resp" /\ ev.ret = "success" /\ mounted) =>
    /\ TokenOf(ev.o, "top", "data") # NoToken => getToken = ServerToken
    /\ user = normalizeUser(ev.o.me)

LogoutSteps == <<"setUser(null)", "clearToken", "request">>

IsPrefix(s, t) == Len(s) <= Len(t) /\ s = SubSeq(t, 1, Len(s))

\* clearToken() has nothing left to remove
TokenStoreCleared ==
  /\ clearTokenCookies(cookies, cookieName) = cookies
  /\ clearTokenLocal(localStore, lsOK) = localStore

LogoutRequestFailed(o) == o.net \/ ~o.ok

\* no cookie and no local entry holds a value it did not hold before
NoTokenRestored ==
  /\ \A n \in CookieNames : cookies'[n] = cookies[n] \/ cookies'[n] = NoCookie
  /\ \A k \in LocalKeys : localStore'[k] = localStore[k] \/ localStore'[k] = NoToken

RegistrationSucceeded(o) == ~o.net /\ o.ok /\ o.success # "false"

\* the message of a registration failure: the server's, or the default
RegistrationFailureMessages == {"Network error", "data.message || Registration failed"}

\* C20: register in non-mock mode calls who-am-I only after the call of the
\* registration endpoint has succeeded; when registration fails it returns
\* success: false with the registration failure message, issues no who-am-I
\* call and leaves the user state unchanged.
C20_RegisterOrder ==
  /\ [](authMode # "mock"
         => /\ ev.op = "register_start" => ev.calls = {"POST /auth/register"}
            /\ (ev.op \in {"register_start", "register_resp", "register_me"}
                  /\ "GET /me" \in ev.calls)
                 => (ev.op = "register_resp" /\ RegistrationSucceeded(ev.o))
            /\ pcReg = "me" => (ev.op = "register_resp" => RegistrationSucceeded(ev.o))
            /\ (ev.op = "register_resp" /\ ~RegistrationSucceeded(ev.o))
                 => /\ ev.ret \in RegistrationFailureMessages
                    /\ ev.calls = {}
                    /\ pcReg = "idle")
  /\ [][(pcReg = "reg" /\ ev'.op = "register_resp" /\ ~RegistrationSucceeded(ev'.o))
          => user' = user]_vars

\* a registration fails while a user is signed in, and the user stays
C20_Witness ==
  /\ authMode # "mock" /\ ev.op = "register_resp" /\ ~RegistrationSucceeded(ev.o)
  /\ ev.ret \in RegistrationFailureMessages /\ ev.calls = {}
  /\ user # NoUser

\* the call a step of the auth context belongs to
CallOf(op) ==
  IF op \in {"boot_start", "boot_me"} THEN "boot"
  ELSE IF op = "login_resp" THEN "login"
  ELSE IF op \in {"register_resp", "register_me"} THEN "register"
  ELSE "other"

\* C24: outside mock mode, once logout has been invoked the user state stays
\* null until a later login or register call succeeds, under every
\* interleaving with a bootstrap, login or register call that was already
\* in flight when logout started: no step of such a call signs a user in.
C24_LogoutSticks ==
  [][(authMode # "mock" /\ user = NoUser /\ user' # NoUser)
       => CallOf(ev'.op) \notin afterLogout]_vars

\* logout itself leaves the user state null
C24_LogoutClearsUser == ev.op \in {"logout_start", "logout_mock"} => user = NoUser

\* C25: outside mock mode, in every reachable state of the auth context a
\* non-null user implies that getToken() gives a token: the context is never
\* authenticated without a stored token.
C25_UserHasToken == (authMode # "mock" /\ user # NoUser) => Truthy(getToken)

\* C27: while the provider stays mounted and every network call is answered,
\* bootstrap ends with loading = FALSE in every branch (mock, no token,
\* who-am-I success, who-am-I failure, thrown error): the context does not
\* stay in bootstrapping forever.
C27_BootstrapEnds == (loading /\ mounted) ~> (~loading \/ ~mounted)

C27_Witness ==
  /\ authMode # "mock" /\ mounted /\ ~loading
  /\ ev.op = "boot_me" /\ ev.o = NetOutcome /\ user = NoUser

\* login() has just returned success: false
LoginFailed == ev.op = "login_resp" /\ ev.ret = "fail"

\* C26: a login call that returns success: false leaves the token store and
\* the user state as they were before the call, also when the answer of the
\* endpoint carries a token and no user object.
C26_FailedLoginFrame ==
  [][LoginFailed' =>
       /\ user' = user
       /\ getToken' = getToken
       /\ localStore' = localStore
       /\ cookies'[cookieName] = cookies[cookieName]]_vars

\* a failed login never changes the user state
C26_FailedLoginKeepsUser == [][LoginFailed' => user' = user]_vars

(***************************************************************************)
(* Properties of the edge interceptor and of the two guards together       *)
(***************************************************************************)
\* the request carries a token that passes verification under a configured key
VerifiedToken ==
  eCookie.present /\ ~eCookie.empty /\ eCookie.verifies /\ eKeyCfg # "none"

\* the interceptor has decided a request with a verified token on a
\* protected path that it does not pass through as a static file
EdgeDecided ==
  /\ eResp # EdgePending /\ eMode # "mock"
  /\ VerifiedToken /\ ProtectedPath(ePath) /\ ~StaticSkip(ePath)

\* the role RequireRole is given by the pages under a path
RequiredRoleFor(pathname) == IF isAdminRoute(pathname) THEN "admin" ELSE "assistant"

\* the server profile of the identity a claim set describes
ProfileOf(claims) == Me("u1", "absent", claims.role, claims.is_admin)

\* C15: the client guard and the edge interceptor implement the same rule:
\* for every identity and protected path, the interceptor admits the request
\* exactly when RequireRole, with required role "admin" for /admin paths and
\* "assistant" for /assist and /student paths, admits the user that
\* normalizeUser derives from that identity.
C15_GuardsAgree ==
  EdgeDecided
    => ((eResp = EdgeNext)
          <=> RequireRoleAllow(RequiredRoleFor(ePath), normalizeUser(ProfileOf(eCookie.claims))))

\* the identities that name their role as admin, assistant or student in
\* role, with no type and no is_admin flag contradicting it
PlainIdentity(claims) ==
  /\ claims.role \in {"admin", "assistant", "student"}
  /\ claims.is_admin = "true" => claims.role = "admin"

\* on those identities the two guards agree
C15_PlainIdentities == PlainIdentity(eCookie.claims) => C15_GuardsAgree

\* the role the claims state: role if it has a value, else type, else the
\* boolean is_admin; student counts as assistant
StatedRole(claims) ==
  LET r == IF claims.role \notin {"absent", ""} THEN claims.role
           ELSE IF claims.type \notin {"absent", ""} THEN claims.type
           ELSE IF claims.is_admin = "true" THEN "admin"
           ELSE IF claims.is_admin = "false" THEN "assistant"
           ELSE "missing"
  IN  IF r = "student" THEN "assistant" ELSE r

StatedRoleAuthorized(pathname, claims) ==
  IF isAdminRoute(pathname) THEN StatedRole(claims) = "admin"
  ELSE StatedRole(claims) \in {"assistant", "admin"}

\* C23: outside mock mode no request for a path under /admin, /assist or
\* /student passes the interceptor unless it carries a cookie token that
\* verifies and whose resolved role is authorized for that path; for every
\* path, those that contain a '.' or match the static-asset skip rules
\* included.
C23_NoBypass ==
  (eResp = EdgeNext /\ eMode # "mock" /\ ProtectedPath(ePath))
    => (VerifiedToken /\ StatedRoleAuthorized(ePath, eCookie.claims))

\* the same statement for the paths that no skip rule matches
C23_UnskippedPaths == ~StaticSkip(ePath) => C23_NoBypass

\* the steps the auth context takes in mock mode: none of them is one of
\* the steps that wait for or handle an answer of the backend
MockSteps ==
  {"none", "boot_mock", "login_mock", "register_mock", "logout_mock", "unmount",
   "call_start", "call_resp", "call_401"}

Rejected(ty, st, errs) ==
  [kind |-> "reject", typed |-> ty, status |-> st, calls |-> {}, errors |-> errs]
Sent(calls) ==
  [kind |-> "sent", typed |-> FALSE, status |-> 0, calls |-> calls, errors |-> {}]
NotCalled ==
  [kind |-> "pending", typed |-> FALSE, status |-> 0, calls |-> {}, errors |-> {}]

\* Dates are day numbers; NaD is a string that new Date() does not parse.
NaD == -1
DayNumbers == {NaD, 0, 1, 2, 366, 367, 368, 369, 800}
Todays == {2, 400}
\* setFullYear(now.getFullYear() + 1) lands 365 or 366 days later
YearLengths == {365, 366}

\* ScheduleApiService.validateDateRange: "ok" or the error it throws
validateDateRange(startDate, endDate, now, yearLen) ==
  LET oneYearFromNow == now + yearLen IN
  IF startDate = NaD \/ endDate = NaD THEN "Invalid date format"
  ELSE IF startDate > endDate THEN "Start date must be before or equal to end date"
  ELSE IF endDate > oneYearFromNow THEN "End date cannot be more than 1 year in the future"
  ELSE "ok"

\* ScheduleApiService.generateSchedule
generateSchedule(startDate, endDate, now, yearLen) ==
  IF validateDateRange(startDate, endDate, now, yearLen) # "ok"
  THEN Rejected(TRUE, 400, {})
  ELSE Sent({"POST /admin/schedule/generate"})

GenerateSchedule ==
  /\ svcOp = "none"
  /\ \E s \in DayNumbers, e \in DayNumbers, now \in Todays, y \in YearLengths :
       /\ svcIn' = [start_date |-> s, end_date |-> e, now |-> now, yearLen |-> y]
       /\ svcOut' = generateSchedule(s, e, now, y)
  /\ svcOp' = "generateSchedule"
  /\ UNCHANGED <<tokVars, tsVars, retryVars, httpVars, edgeVars, authVars, uiVars>>

\* C12: generateSchedule of the schedule service rejects with the typed
\* error, and issues no request, whenever end_date is earlier than
\* start_date or end_date is more than 366 days after start_date.
C12_DateRangeRejected ==
  (/\ svcOp = "generateSchedule"
   /\ svcIn.start_date # NaD /\ svcIn.end_date # NaD
   /\ (svcIn.end_date < svcIn.start_date \/ svcIn.end_date - svcIn.start_date > 366))
    => (svcOut.kind = "reject" /\ svcOut.typed /\ svcOut.calls = {})

\* the cap of ScheduleApiService.batchCheckAvailability
BATCH_MAX_QUERIES == 500
\* request.queries.length
QueryCounts == {0, 1, 100, 499, 500, 501, 502, 1000}

\* ScheduleApiService.batchCheckAvailability on n queries
batchCheckAvailability(n) ==
  IF n > BATCH_MAX_QUERIES THEN Rejected(TRUE, 400, {})
  ELSE Sent({"POST /admin/schedule/staff/check-availability/batch"})

\* batchCheckAvailability of the useStaffAvailability hook on n queries
useBatchCheckAvailability(n) ==
  Sent({"POST /admin/schedule/staff/check-availability/batch"})

BatchCheckAvailability ==
  /\ svcOp = "none"
  /\ \E n \in QueryCounts :
       /\ svcIn' = [queries |-> n]
       /\ svcOut' = batchCheckAvailability(n)
  /\ svcOp' = "batchCheckAvailability"
  /\ UNCHANGED <<tokVars, tsVars, retryVars, httpVars, edgeVars, authVars, uiVars>>

UseBatchCheckAvailability ==
  /\ svcOp = "none"
  /\ \E n \in QueryCounts :
       /\ svcIn' = [queries |-> n]
       /\ svcOut' = useBatchCheckAvailability(n)
  /\ svcOp' = "useStaffAvailability.batchCheckAvailability"
  /\ UNCHANGED <<tokVars, tsVars, retryVars, httpVars, edgeVars, authVars, uiVars>>

BatchOps == {"batchCheckAvailability", "useStaffAvailability.batchCheckAvailability"}

\* C13: batchCheckAvailability rejects, and issues no request, whenever it
\* is given more than 500 queries.
C13_BatchCapRejected ==
  (svcOp \in BatchOps /\ svcIn.queries > 500)
    => (svcOut.kind = "reject" /\ svcOut.calls = {})

\* the same statement of the schedule service alone
C13_ServiceOnly == svcOp = "batchCheckAvailability" => C13_BatchCapRejected

\* The registration form.  name stands for the required text fields; a
\* password is empty, weak, or one of two that pass the strength checks; a
\* file is missing ("null"), acceptable, or over the size limit.
FormPasswords == {"", "weak", "Str0ng!a", "Str0ng!b"}
FormFiles == {"null", "ok", "tooLarge"}
RegistrationForms ==
  [name : {"", "n"}, password : FormPasswords, confirm_password : FormPasswords,
   terms : BOOLEAN, profile_picture : FormFiles, transcript : {"null", "ok"}]

\* one issue of a ZodError: the first element of its path, and whether it
\* aborts the parse (issues of z.custom do, issues of string checks and of
\* refine do not)
Issue(path, fatal) == [path |-> path, fatal |-> fatal]

\* the issues of the fields of registrationSchema, in schema order
FieldIssues(f) ==
  (IF f.name = "" THEN <<Issue("name", FALSE)>> ELSE <<>>)
    \o (IF f.password \in {"", "weak"} THEN <<Issue("password", FALSE)>> ELSE <<>>)
    \o (IF ~f.terms THEN <<Issue("terms", FALSE)>> ELSE <<>>)
    \o (IF f.profile_picture # "ok" THEN <<Issue("profile_picture", TRUE)>> ELSE <<>>)
    \o (IF f.transcript # "ok" THEN <<Issue("transcript", TRUE)>> ELSE <<>>)

\* registrationSchema.parse: the issues of the ZodError it throws (none: the
\* parse succeeds).  The refinement of the whole object runs only when no
\* field issue has aborted the parse of the object.
registrationSchema(f) ==
  LET fi == FieldIssues(f)
      aborted == \E i \in 1..Len(fi) : fi[i].fatal
  IN  IF ~aborted /\ f.password # f.confirm_password
      THEN fi \o <<Issue("confirm_password", FALSE)>>
      ELSE fi

\* validateForm: the keys of the error map it sets
validateForm(f) ==
  LET issues == registrationSchema(f) IN {issues[i].path : i \in 1..Len(issues)}

\* handleSubmit
handleSubmit(f, uploadOk) ==
  IF registrationSchema(f) # <<>> THEN Rejected(FALSE, 0, validateForm(f))
  ELSE IF ~uploadOk THEN Sent({"upload"})
  ELSE Sent({"upload", "POST /auth/register"})

RegistrationSubmit ==
  /\ svcOp = "none"
  /\ \E f \in RegistrationForms, uploadOk \in BOOLEAN :
       /\ svcIn' = f
       /\ svcOut' = handleSubmit(f, uploadOk)
  /\ svcOp' = "handleSubmit"
  /\ UNCHANGED <<tokVars, tsVars, retryVars, httpVars, edgeVars, authVars, uiVars>>

\* C14: submitting the registration form with password different from
\* confirm_password leaves an error under the key confirm_password in the
\* form's error map and issues no request, neither upload nor registration.
C14_PasswordMismatch ==
  (svcOp = "handleSubmit" /\ svcIn.password # svcIn.confirm_password)
    => ("confirm_password" \in svcOut.errors /\ svcOut.calls = {})

\* the part of it that is about requests
C14_NoRequest ==
  (svcOp = "handleSubmit" /\ svcIn.password # svcIn.confirm_password)
    => svcOut.calls = {}

\* the same statement for forms whose two files are acceptable
C14_WithFiles ==
  (svcOp = "handleSubmit" /\ svcIn.profile_picture = "ok" /\ svcIn.transcript = "ok")
    => C14_PasswordMismatch

(***************************************************************************)
(* Performance polling hooks: usePerformanceMetrics, useHealthStatus,      *)
(* useSlowOperations                                                       *)
(***************************************************************************)
PollHooks == {"usePerformanceMetrics", "useHealthStatus", "useSlowOperations"}
RefreshIntervals == {0, 30000}

MaxTimers == 3
MaxRequests == 3

\* the dependency array of the interval effect
EffectDeps == <<pEnabled, pInterval, pFetchData>>

\* a cleanup that leaves the timer running
IntervalCleanup_None(ref, timers) == timers

\* the cleanup function of the interval effect: the timers left active
IntervalCleanup(ref, timers) ==
  IF ref # 0 THEN timers \ {ref} ELSE timers

\* the body of the interval effect
IntervalEffect(ref, timers, next, enabled, interval) ==
  IF enabled /\ interval > 0
  THEN [ref |-> next, timers |-> timers \cup {next}, next |-> next + 1]
  ELSE IF ref # 0
  THEN [ref |-> 0, timers |-> timers \ {ref}, next |-> next]
  ELSE [ref |-> ref, timers |-> timers, next |-> next]

\* fetchData up to its await: the request it issues
Request(src) == [src |-> src, state |-> "flight"]

InFlightRequests == {i \in 1..Len(pReqs) : pReqs[i].state = "flight"}

\* toggleAutoRefresh
ToggleAutoRefresh ==
  /\ pMounted
  /\ pEnabled' = ~pEnabled
  /\ UNCHANGED <<pHook, pMounted, pInterval, pFetchData, pDeps, pRef, pTimers, pNextId,
                 pReqs, pData>>
  /\ UNCHANGED nonPoll

\* the parent renders the hook with other options: another refreshInterval,
\* or another enableToastOnError, which makes a new fetchData
ChangeOptions ==
  /\ pMounted
  /\ \/ /\ pInterval' \in RefreshIntervals \ {pInterval}
        /\ UNCHANGED pFetchData
     \/ /\ pFetchData' = 1 - pFetchData
        /\ UNCHANGED pInterval
  /\ UNCHANGED <<pHook, pMounted, pEnabled, pDeps, pRef, pTimers, pNextId, pReqs, pData>>
  /\ UNCHANGED nonPoll

\* the render is committed: an effect whose dependencies changed runs its
\* previous cleanup and then its body; the initial-fetch effect depends on
\* fetchData alone
CommitEffects ==
  /\ pMounted
  /\ pNextId <= MaxTimers
  /\ pFetchData = pDeps[3] \/ Len(pReqs) < MaxRequests
  /\ IF EffectDeps = pDeps
     THEN UNCHANGED <<pRef, pTimers, pNextId, pReqs>>
     ELSE LET e == IntervalEffect(pRef, IntervalCleanup(pRef, pTimers), pNextId,
                                  pEnabled, pInterval) IN
          /\ pRef' = e.ref /\ pTimers' = e.timers /\ pNextId' = e.next
          /\ pReqs' = IF pFetchData # pDeps[3] THEN Append(pReqs, Request("effect"))
                      ELSE pReqs
  /\ pDeps' = EffectDeps
  /\ UNCHANGED <<pHook, pMounted, pEnabled, pInterval, pFetchData, pData>>
  /\ UNCHANGED nonPoll

\* the component unmounts: the cleanup of the last committed effect runs
PollUnmount ==
  /\ pMounted
  /\ pMounted' = FALSE
  /\ pTimers' = IntervalCleanup(pRef, pTimers)
  /\ UNCHANGED <<pHook, pEnabled, pInterval, pFetchData, pDeps, pRef, pNextId, pReqs, pData>>
  /\ UNCHANGED nonPoll

\* an active interval timer fires and calls fetchData
TimerTick ==
  /\ Len(pReqs) < MaxRequests
  /\ \E t \in pTimers : pReqs' = Append(pReqs, Request("tick"))
  /\ UNCHANGED <<pHook, pMounted, pEnabled, pInterval, pFetchData, pDeps, pRef, pTimers,
                 pNextId, pData>>
  /\ UNCHANGED nonPoll

\* actions.refresh
Refresh ==
  /\ pMounted
  /\ Len(pReqs) < MaxRequests
  /\ pReqs' = Append(pReqs, Request("refresh"))
  /\ UNCHANGED <<pHook, pMounted, pEnabled, pInterval, pFetchData, pDeps, pRef, pTimers,
                 pNextId, pData>>
  /\ UNCHANGED nonPoll

\* fetchData after its await: the request resolves (setState with the data)
\* or rejects (the data is kept); a state setter of an unmounted component
\* changes nothing
FetchDataSettles ==
  /\ \E i \in InFlightRequests, ok \in BOOLEAN :
       /\ pReqs' = [pReqs EXCEPT ![i].state = IF ok THEN "ok" ELSE "error"]
       /\ pData' = IF ok /\ pMounted THEN i ELSE pData
  /\ UNCHANGED <<pHook, pMounted, pEnabled, pInterval, pFetchData, pDeps, pRef, pTimers,
                 pNextId>>
  /\ UNCHANGED nonPoll

NextPoll ==
  \/ ToggleAutoRefresh
  \/ ChangeOptions
  \/ CommitEffects
  \/ PollUnmount
  \/ TimerTick
  \/ Refresh
  \/ FetchDataSettles

\* C21: in each performance polling hook at most one interval timer is
\* active at any time, across every sequence of auto-refresh toggles,
\* refresh-interval changes and re-renders, and no timer is active once
\* auto-refresh is disabled (and the render that disables it is committed)
\* or the component has unmounted.
C21_OneTimer ==
  /\ Cardinality(pTimers) <= 1
  /\ ~pMounted => pTimers = {}
  /\ (pMounted /\ ~pEnabled /\ pDeps = EffectDeps) => pTimers = {}

\* the third timer of a hook is the only active one
C21_Witness ==
  /\ pMounted /\ pEnabled /\ pDeps = EffectDeps
  /\ pRef = 3 /\ pTimers = {3}

\* the two requests issued last are a manual refresh and a timer tick, and
\* every request of the hook has completed with a response
RefreshAndTickCompleted ==
  /\ pMounted /\ Len(pReqs) >= 2
  /\ {pReqs[Len(pReqs) - 1].src, pReqs[Len(pReqs)].src} = {"refresh", "tick"}
  /\ \A i \in 1..Len(pReqs) : pReqs[i].state = "ok"

\* C29: in usePerformanceMetrics, when a manual refresh and a timer tick
\* have had requests in flight and both have completed, the hook's data is
\* the response of the most recently issued request, whatever order the
\* responses arrived in.
C29_LatestRequestWins ==
  (pHook = "usePerformanceMetrics" /\ RefreshAndTickCompleted)
    => pData = Len(pReqs)

\* the data is the response of one of the requests that completed
C29_DataIsAResponse ==
  pData # 0 => (pData \in 1..Len(pReqs) /\ pReqs[pData].state = "ok")

(***************************************************************************)
(* Registration draft: the form of the register page and its copy in       *)
(* localStorage                                                            *)
(***************************************************************************)
\* The form: name stands for the text fields and lists that are persisted,
\* password for password and confirm_password; a file field holds null, a
\* File, or "{}", which is what JSON.parse gives back for a stored File.
FormData(n, pw, pic, tr) ==
  [name |-> n, password |-> pw, profile_picture |-> pic, transcript |-> tr]
FormFields == {"name", "password", "profile_picture", "transcript"}
FieldValues(field) ==
  IF field = "name" THEN {"", "n"}
  ELSE IF field = "password" THEN {"", "pw"}
  ELSE {"null", "File"}

createInitialFormData == FormData("", "", "null", "null")

\* values of the storage key: no item, text that is not JSON, or an object
\* in which each key has a value or is "absent"
Draft(n, pw, pic, tr) ==
  [name |-> n, password |-> pw, profile_picture |-> pic, transcript |-> tr]
NoDraft == Draft("none", "none", "none", "none")
CorruptDraft == Draft("corrupt", "corrupt", "corrupt", "corrupt")

\* a payload that carries the whole form
extractPersistableData_All(data) ==
  Draft(data.name, data.password,
        IF data.profile_picture = "null" THEN "null" ELSE "{}",
        IF data.transcript = "null" THEN "null" ELSE "{}")

\* extractPersistableData, then JSON.stringify
extractPersistableData(data) == Draft(data.name, "absent", "absent", "absent")

\* the hydration effect: `{...prev, ...parsed}`
Hydrated(prev, stored) ==
  IF stored = NoDraft \/ stored = CorruptDraft THEN prev
  ELSE [f \in FormFields |-> IF stored[f] # "absent" THEN stored[f] ELSE prev[f]]

\* what the key may hold when the page is opened: nothing, broken text, a
\* draft this page wrote, or an object with other keys
PriorDrafts ==
  {NoDraft, CorruptDraft, extractPersistableData(FormData("n", "pw", "File", "File")),
   Draft("n", "pw", "{}", "absent")}

\* the hydration effect, which also starts the first debounced save
HydrateDraft ==
  /\ ~dHydrated
  /\ dForm' = Hydrated(dForm, dStored)
  /\ dHydrated' = TRUE
  /\ dTimer' = TRUE
  /\ UNCHANGED <<dStored, dLastWrite>>
  /\ UNCHANGED nonDraft

\* handleInputChange: the save effect re-runs, its cleanup clears the
\* pending timeout and a new one is set once the form has hydrated
HandleInputChange ==
  /\ \E field \in FormFields : \E value \in FieldValues(field) :
       /\ value # dForm[field]
       /\ dForm' = [dForm EXCEPT ![field] = value]
  /\ dTimer' = dHydrated
  /\ UNCHANGED <<dStored, dHydrated, dLastWrite>>
  /\ UNCHANGED nonDraft

\* the timeout of the save effect fires
SaveDraft ==
  /\ dTimer
  /\ dTimer' = FALSE
  /\ \/ /\ dStored' = extractPersistableData(dForm)
        /\ dLastWrite' = extractPersistableData(dForm)
     \/ UNCHANGED <<dStored, dLastWrite>>      \* setItem throws (quota)
  /\ UNCHANGED <<dForm, dHydrated>>
  /\ UNCHANGED nonDraft

\* the page is loaded again: the component state is new, the storage stays
ReloadPage ==
  /\ dForm' = createInitialFormData
  /\ dHydrated' = FALSE
  /\ dTimer' = FALSE
  /\ UNCHANGED <<dStored, dLastWrite>>
  /\ UNCHANGED nonDraft

NextDraft == HydrateDraft \/ HandleInputChange \/ SaveDraft \/ ReloadPage

\* C22: the registration draft written to persistent storage never contains
\* the profile_picture or transcript files, whatever sequence of field
\* edits, debounced saves and reload-hydrations precedes the write.
C22_DraftWithoutFiles ==
  dLastWrite # NoDraft
    => (dLastWrite.profile_picture = "absent" /\ dLastWrite.transcript = "absent")

\* a draft has been written while both files were selected
C22_Witness ==
  /\ dForm.profile_picture = "File" /\ dForm.transcript = "File" /\ dForm.name = "n"
  /\ dHydrated /\ ~dTimer
  /\ dLastWrite # NoDraft /\ dLastWrite = dStored /\ dLastWrite.name = "n"

(***************************************************************************)
(* SpecToken: the token store on every prior content                       *)
(***************************************************************************)
PriorTokens == {<<"a">>, <<"a", "%">>}
PriorCookieValues ==
  {NoCookie} \cup {VisibleCookie(encodeURIComponent(t)) : t \in PriorTokens \cup {<<>>}}
             \cup {HttpOnlyCookie(encodeURIComponent(<<"a">>))}
PriorLocalValues == {NoToken} \cup PriorTokens

\* storeToken(t) immediately followed by getToken()
StoreThenGet ==
  \E t \in TokenStrings :
    /\ cookies' = storeTokenCookies(cookies, cookieName, t)
    /\ localStore' = storeTokenLocal(localStore, lsOK, t)
    /\ tsLast' = [op |-> "store", arg |-> t]
    /\ tsRead' = getTokenOf(cookies', localStore', lsOK, cookieName)
    /\ UNCHANGED <<cookieName, lsOK, retryVars, httpVars, edgeVars, authVars, svcVars, uiVars>>

\* clearToken() immediately followed by getToken()
ClearThenGet ==
  /\ cookies' = clearTokenCookies(cookies, cookieName)
  /\ localStore' = clearTokenLocal(localStore, lsOK)
  /\ tsLast' = [op |-> "clear", arg |-> NoToken]
  /\ tsRead' = getTokenOf(cookies', localStore', lsOK, cookieName)
  /\ UNCHANGED <<cookieName, lsOK, retryVars, httpVars, edgeVars, authVars, svcVars, uiVars>>

NextToken == StoreThenGet \/ ClearThenGet

\* C3: storeToken(t) immediately followed by getToken() returns t, and
\* clearToken() immediately followed by getToken() returns null, for every
\* token string t and every prior content of the two stores.
C3_RoundTrip ==
  /\ tsLast.op = "store" => tsRead = tsLast.arg
  /\ tsLast.op = "clear" => tsRead = NoToken

(***************************************************************************)
(* Schedule editor: the admin schedule page in its two versions.  One      *)
(* keeps the schedule in the state of useScheduleAPI, the other reads it   *)
(* from the query cache and writes it through optimistic updates.  A       *)
(* handler reads the values of the render it was created in.               *)
(***************************************************************************)
Editors == {"state", "query"}
Cells == {"Monday 09:00"}
StaffIds == {"s1", "s2", "s3", "s4"}
NoCell == "none"
MaxStale == 2

\* shift.maxStaff / shift.max_staff: a number, or absent from the data
Unspecified == [given |-> FALSE, n |-> 0]
MaxStaff(n) == [given |-> TRUE, n |-> n]
MaxStaffValues == {Unspecified, MaxStaff(1), MaxStaff(3)}

\* `shift.assistants.length >= shift.maxStaff`: false against undefined
AtLimit(len, m) == m.given /\ len >= m.n

\* `shift.max_staff || 3`, `shift?.maxStaff || 3`
OrThree(m) == IF m.given /\ m.n # 0 THEN m.n ELSE 3

\* assistants.some(a => a.id === id)
Some(assistants, id) == \E i \in 1..Len(assistants) : assistants[i] = id

\* assistants.filter(a => a.id !== id)
Filter(assistants, id) == SelectSeq(assistants, LAMBDA a : a # id)

\* the state version's addStaffToShift: a map over schedule.shifts
addStaffToShift(schedule, cell, staff) ==
  [c \in Cells |->
     IF c = cell
     THEN IF Some(schedule[c], staff) THEN schedule[c]
          ELSE IF AtLimit(Len(schedule[c]), sMax) THEN schedule[c]
          ELSE Append(schedule[c], staff)
     ELSE schedule[c]]

\* the optimistic update of the query cache
addStaffToScheduleData(oldData, cell, staff) ==
  [c \in Cells |-> IF c = cell THEN Append(oldData[c], staff) ELSE oldData[c]]

removeStaffFromScheduleData(oldData, cell, staffId) ==
  [c \in Cells |-> IF c = cell THEN Filter(oldData[c], staffId) ELSE oldData[c]]

\* the query version's tests before the optimistic update
MayAdd(shown, cell, staff) ==
  /\ ~Some(shown[cell], staff)
  /\ ~(Len(shown[cell]) >= OrThree(sMax))

\* The end of an event handler.  The updates of useState are committed before
\* the next event is handled; a change of the query cache reaches the page
\* when the cache has notified its observers, after the handler.
Handled ==
  IF sEditor = "state"
  THEN sSeen' = sData' /\ UNCHANGED sStale
  ELSE UNCHANGED sSeen /\ sStale' = sStale + 1

\* the "Add Staff" button of a cell, shown while the cell is not full
OpenStaffModal ==
  /\ sStale < MaxStale
  /\ \E c \in Cells, found \in BOOLEAN :
       /\ Len(sSeen[c]) < OrThree(sMax)
       /\ sCell' = c
       /\ sModal' = IF sEditor = "state" /\ ~found THEN sModal ELSE TRUE
  /\ UNCHANGED <<sEditor, sMax, sData, sSeen, sStale, nonSched>>

\* the modal is dismissed
CloseStaffModal ==
  /\ sStale < MaxStale
  /\ sModal
  /\ sModal' = FALSE
  /\ UNCHANGED <<sEditor, sMax, sData, sCell, sSeen, sStale, nonSched>>

\* addStaffToShift(staff) of either version, on the selected cell
AddStaff(staff) ==
  IF sCell = NoCell
  THEN UNCHANGED <<sData, sModal>>
  ELSE IF sEditor = "state"
  THEN /\ sData' = addStaffToShift(sSeen, sCell, staff)
       /\ sModal' = FALSE
  ELSE IF MayAdd(sSeen, sCell, staff)
  THEN /\ sData' = addStaffToScheduleData(sData, sCell, staff)
       /\ sModal' = FALSE
  ELSE UNCHANGED <<sData, sModal>>

\* a staff member is picked in the modal
AddStaffToShift ==
  /\ sStale < MaxStale
  /\ sModal
  /\ \E staff \in StaffIds : AddStaff(staff)
  /\ Handled
  /\ UNCHANGED <<sEditor, sMax, sCell, nonSched>>

\* the remove button of an assistant shown in a cell
RemoveStaffFromShift ==
  /\ sStale < MaxStale
  /\ \E c \in Cells, staffId \in StaffIds :
       /\ Some(sSeen[c], staffId)
       /\ sData' = removeStaffFromScheduleData(
                     IF sEditor = "state" THEN sSeen ELSE sData, c, staffId)
  /\ Handled
  /\ UNCHANGED <<sEditor, sMax, sCell, sModal, nonSched>>

\* a dragged staff member is dropped on a cell
HandleDrop ==
  /\ sStale < MaxStale
  /\ \E c \in Cells, staff \in StaffIds, isAvailable \in BOOLEAN :
       IF sEditor = "state"
       THEN IF Some(sSeen[c], staff) \/ ~isAvailable
            THEN UNCHANGED <<sData, sModal>>
            ELSE AddStaff(staff)
       ELSE /\ sData' = IF MayAdd(sSeen, c, staff)
                        THEN addStaffToScheduleData(sData, c, staff)
                        ELSE sData
            /\ UNCHANGED sModal
  /\ Handled
  /\ UNCHANGED <<sEditor, sMax, sCell, nonSched>>

\* the query cache notifies the page, which renders the current schedule
Render ==
  /\ sEditor = "query" /\ sStale > 0
  /\ sSeen' = sData
  /\ sStale' = 0
  /\ UNCHANGED <<sEditor, sMax, sData, sCell, sModal, nonSched>>

NextSched ==
  \/ OpenStaffModal \/ CloseStaffModal
  \/ AddStaffToShift \/ RemoveStaffFromShift \/ HandleDrop
  \/ Render

Distinct(assistants) ==
  \A i, j \in 1..Len(assistants) : assistants[i] = assistants[j] => i = j

\* the limit of a shift as the statement gives it
StatedLimit == IF sMax.given THEN sMax.n ELSE 3

\* C28: after any sequence of add-staff (modal), drag-and-drop and
\* remove-staff actions, every shift holds at most maxStaff (3 when
\* unspecified) assistants, with pairwise distinct ids.
C28_ShiftLimit ==
  \A c \in Cells : Len(sData[c]) <= StatedLimit /\ Distinct(sData[c])

\* the version that keeps the schedule in state never holds an id twice, and
\* keeps a limit that the data gives
C28_StateEditor ==
  sEditor = "state" =>
    \A c \in Cells :
      /\ Distinct(sData[c])
      /\ sMax.given => Len(sData[c]) <= sMax.n

(***************************************************************************)
(* The generateSchedule callback of the useScheduleAPI hook: one request,  *)
(* and after a 5xx answer the same request again under retryWithBackoff.   *)
(***************************************************************************)
GenAnswers == {"ok", "http400", "http401", "http500", "net"}

\* `e instanceof HttpError && e.status >= 500`
ServerError(a) == a = "http500"

\* the catch block goes on to retryWithBackoff
RetriesAfter(a) == ServerError(a)

\* generateSchedule(startDate, endDate) is called
GenerateStart ==
  /\ gPc = "idle"
  /\ gPc' = "first" /\ gLoading' = TRUE /\ gReqs' = 1
  /\ UNCHANGED <<gI, gHist, gDelays, gOut, nonGen>>

\* the answer of the first request
GenerateFirstAnswer ==
  /\ gPc = "first"
  /\ \E a \in GenAnswers :
       /\ gHist' = Append(gHist, a)
       /\ IF a = "ok"
          THEN gPc' = "done" /\ gOut' = "resolved" /\ gLoading' = FALSE /\ UNCHANGED gReqs
          ELSE IF RetriesAfter(a)
          THEN gPc' = "retry" /\ gReqs' = gReqs + 1 /\ UNCHANGED <<gOut, gLoading>>
          ELSE gPc' = "done" /\ gOut' = "rejected" /\ gLoading' = FALSE /\ UNCHANGED gReqs
  /\ UNCHANGED <<gI, gDelays, nonGen>>

\* the answer of a request made by retryWithBackoff
GenerateRetryAnswer ==
  /\ gPc = "retry"
  /\ \E a \in GenAnswers :
       /\ gHist' = Append(gHist, a)
       /\ IF a = "ok"
          THEN gPc' = "done" /\ gOut' = "resolved" /\ gLoading' = FALSE /\ UNCHANGED gDelays
          ELSE gPc' = "backoff" /\ gDelays' = Append(gDelays, RetryWithBackoffDelay(gI))
                 /\ UNCHANGED <<gOut, gLoading>>
  /\ UNCHANGED <<gI, gReqs, nonGen>>

\* the backoff timer of retryWithBackoff fires: the next turn of its loop
GenerateBackoffTimer ==
  /\ gPc = "backoff"
  /\ gI' = gI + 1
  /\ IF gI + 1 < RWB_attempts
     THEN gPc' = "retry" /\ gReqs' = gReqs + 1 /\ UNCHANGED <<gOut, gLoading>>
     ELSE gPc' = "done" /\ gOut' = "rejected" /\ gLoading' = FALSE /\ UNCHANGED gReqs
  /\ UNCHANGED <<gHist, gDelays, nonGen>>

NextGen ==
  \/ GenerateStart \/ GenerateFirstAnswer
  \/ GenerateRetryAnswer \/ GenerateBackoffTimer

\* C30: one invocation of generateSchedule issues at most 3 requests in
\* total, the first attempt included, whatever the server answers.
C30_AtMostThreeRequests == gReqs <= 3

\* the requests of one invocation: the first one and those of retryWithBackoff
C30_RequestCeiling == gReqs <= 1 + RWB_attempts

\* every request but the last was answered with an error, the first with a 5xx
C30_RetriesOnlyAfterErrors ==
  gReqs > 1 => /\ ServerError(gHist[1])
               /\ \A k \in 1..(gReqs - 1) : gHist[k] # "ok"

(***************************************************************************)
(* Initial states and specifications                                       *)
(***************************************************************************)

TSIdle == [op |-> "none", arg |-> NoToken]

TokenStoreUnused ==
  /\ cookieName = "access_token"
  /\ cookies = [n \in CookieNames |-> NoCookie]
  /\ localStore = [k \in LocalKeys |-> NoToken]
  /\ lsOK = TRUE

TSUnused == tsLast = TSIdle /\ tsRead = NoToken

RetryUnused ==
  /\ rFn = "none" /\ rPc = "idle" /\ rAttempt = 0
  /\ rHist = <<>> /\ rDelays = <<>> /\ rLastErr = NoError /\ rResult = Pending

EdgeUnused ==
  /\ eMode = "" /\ eDevRole = "assistant" /\ eKeyCfg = "secret"
  /\ ePath = <<"/">> /\ eCookie = NoReqCookie /\ eResp = EdgePending

AuthUnused ==
  /\ authMode = "" /\ authDevRole = "assistant" /\ variant = "session"
  /\ user = NoUser /\ loading = TRUE /\ mounted = TRUE
  /\ pcBoot = "start" /\ pcLogin = "idle" /\ pcReg = "idle" /\ pcLogout = "idle"
  /\ pcCall = "idle" /\ logoutTrace = <<>> /\ afterLogout = NotLoggedOut /\ ev = NoEvent

ServiceUnused == svcOp = "none" /\ svcIn = <<>> /\ svcOut = NotCalled

PollUnused ==
  /\ pHook = "none" /\ pMounted = FALSE /\ pEnabled = FALSE /\ pInterval = 0
  /\ pFetchData = 0 /\ pDeps = <<FALSE, 0, 0>> /\ pRef = 0 /\ pTimers = {}
  /\ pNextId = 1 /\ pReqs = <<>> /\ pData = 0

DraftUnused ==
  /\ dForm = createInitialFormData /\ dStored = NoDraft /\ dHydrated = FALSE
  /\ dTimer = FALSE /\ dLastWrite = NoDraft

SchedUnused ==
  /\ sEditor = "none" /\ sMax = Unspecified /\ sData = [c \in Cells |-> <<>>]
  /\ sCell = NoCell /\ sModal = FALSE /\ sSeen = sData /\ sStale = 0

GenUnused ==
  /\ gPc = "unused" /\ gI = 0 /\ gReqs = 0 /\ gHist = <<>> /\ gDelays = <<>>
  /\ gLoading = FALSE /\ gOut = "pending"

UiUnused == PollUnused /\ DraftUnused /\ SchedUnused /\ GenUnused

HttpUnused == hWrapper = "none" /\ hResp = HttpNetFailure /\ hOut = HttpPending

InitTokenStore ==
  /\ cookieName \in CookieNames
  /\ cookies \in [CookieNames -> PriorCookieValues]
  /\ localStore \in [LocalKeys -> PriorLocalValues]
  /\ lsOK \in BOOLEAN

InitToken ==
  /\ InitTokenStore
  /\ TSUnused
  /\ RetryUnused /\ HttpUnused /\ EdgeUnused /\ AuthUnused /\ ServiceUnused /\ UiUnused

InitRetry ==
  /\ TokenStoreUnused /\ TSUnused /\ HttpUnused /\ EdgeUnused /\ AuthUnused /\ ServiceUnused /\ UiUnused
  /\ RetryUnused

InitHttp ==
  /\ TokenStoreUnused /\ TSUnused /\ RetryUnused /\ EdgeUnused /\ AuthUnused /\ ServiceUnused /\ UiUnused
  /\ hWrapper = "none"
  /\ hResp \in HttpExchanges
  /\ hOut = HttpPending

InitEdge ==
  /\ TokenStoreUnused /\ TSUnused /\ RetryUnused /\ HttpUnused /\ AuthUnused /\ ServiceUnused /\ UiUnused
  /\ eMode \in {"", "mock"}
  /\ eDevRole \in {"admin", "assistant", "student"}
  /\ eKeyCfg \in {"jwks", "secret", "none"}
  /\ ePath \in EdgePaths
  /\ eCookie \in ReqCookies
  /\ eResp = EdgePending

\* what the browser stores hold when the provider mounts
PriorStoreKinds == {"empty", "stored", "legacyCookie"}
EmptyJar == [n \in CookieNames |-> NoCookie]
EmptyLocal == [k \in LocalKeys |-> NoToken]
PriorToken == <<"a">>

PriorJar(kind, cname) ==
  IF kind = "stored" THEN storeTokenCookies(EmptyJar, cname, PriorToken)
  ELSE IF kind = "legacyCookie"
       THEN [EmptyJar EXCEPT !["auth_token"] = VisibleCookie(encodeURIComponent(PriorToken))]
  ELSE EmptyJar

PriorLocal(kind, ok) ==
  IF kind = "stored" THEN storeTokenLocal(EmptyLocal, ok, PriorToken)
  ELSE EmptyLocal

InitAuth ==
  /\ TSUnused /\ RetryUnused /\ HttpUnused /\ EdgeUnused /\ ServiceUnused /\ UiUnused
  /\ cookieName \in CookieNames
  /\ lsOK \in BOOLEAN
  /\ \E kind \in PriorStoreKinds :
       /\ cookies = PriorJar(kind, cookieName)
       /\ localStore = PriorLocal(kind, lsOK)
  /\ authMode \in {"", "mock"}
  /\ authDevRole \in (IF authMode = "mock" THEN {"admin", "assistant", "student"}
                                          ELSE {"assistant"})
  /\ variant \in {"session", "v2"}
  /\ user = NoUser /\ loading = TRUE /\ mounted = TRUE
  /\ pcBoot = "start" /\ pcLogin = "idle" /\ pcReg = "idle" /\ pcLogout = "idle"
  /\ pcCall = "idle" /\ logoutTrace = <<>> /\ afterLogout = Untracked /\ ev = NoEvent

SpecAuth == InitAuth /\ [][NextAuth]_vars

\* The provider on one page, with every call of bootstrap answered in the
\* end: the runtime runs the effect after the first commit, and the network
\* call of getMe resolves or rejects.
NextBoot ==
  \/ BootStart \/ BootMe
  \/ LoginStart \/ LoginResponse
  \/ LogoutStart \/ LogoutClear \/ LogoutResponse
  \/ Unmount

SpecBoot ==
  InitAuth /\ [][NextBoot]_vars /\ WF_vars(BootStart) /\ WF_vars(BootMe)

\* The same application outside mock mode, with a working localStorage and
\* with the history of logout kept.
InitLogout ==
  /\ TSUnused /\ RetryUnused /\ HttpUnused /\ EdgeUnused /\ ServiceUnused /\ UiUnused
  /\ cookieName \in CookieNames
  /\ lsOK = TRUE
  /\ \E kind \in PriorStoreKinds :
       /\ cookies = PriorJar(kind, cookieName)
       /\ localStore = PriorLocal(kind, lsOK)
  /\ authMode = "" /\ authDevRole = "assistant"
  /\ variant \in {"session", "v2"}
  /\ user = NoUser /\ loading = TRUE /\ mounted = TRUE
  /\ pcBoot = "start" /\ pcLogin = "idle" /\ pcReg = "idle" /\ pcLogout = "idle"
  /\ pcCall = "idle" /\ logoutTrace = <<>> /\ afterLogout = NotLoggedOut /\ ev = NoEvent

SpecLogout == InitLogout /\ [][NextAuth]_vars

InitService ==
  /\ TokenStoreUnused /\ TSUnused /\ RetryUnused /\ HttpUnused /\ EdgeUnused /\ AuthUnused
  /\ ServiceUnused /\ UiUnused

NextService ==
  \/ GenerateSchedule
  \/ BatchCheckAvailability \/ UseBatchCheckAvailability
  \/ RegistrationSubmit

SpecService == InitService /\ [][NextService]_vars

\* The application configured with NEXT_PUBLIC_AUTH_MODE = "mock": the edge
\* interceptor and the auth context read the same two environment variables.
MockReqCookies ==
  {NoReqCookie, EmptyReqCookie}
    \cup {ReqCookie(TRUE, FALSE, v, Claims(r, "absent", "absent")) :
            v \in BOOLEAN, r \in {"admin", "guest"}}

InitMock ==
  /\ TSUnused /\ RetryUnused /\ HttpUnused /\ ServiceUnused /\ UiUnused
  /\ cookieName \in CookieNames
  /\ lsOK = TRUE
  /\ \E kind \in {"empty", "stored"} :
       /\ cookies = PriorJar(kind, cookieName)
       /\ localStore = PriorLocal(kind, lsOK)
  /\ authMode = "mock"
  /\ authDevRole \in {"admin", "assistant", "student"}
  /\ variant \in {"session", "v2"}
  /\ user = NoUser /\ loading = TRUE /\ mounted = TRUE
  /\ pcBoot = "start" /\ pcLogin = "idle" /\ pcReg = "idle" /\ pcLogout = "idle"
  /\ pcCall = "idle" /\ logoutTrace = <<>> /\ afterLogout = Untracked /\ ev = NoEvent
  /\ eMode = authMode /\ eDevRole = authDevRole
  /\ eKeyCfg \in {"jwks", "secret", "none"}
  /\ ePath \in EdgePaths
  /\ eCookie \in MockReqCookies
  /\ eResp = EdgePending

\* the steps that can be taken in mock mode
NextMock ==
  \/ EdgeRequest
  \/ BootStart
  \/ LoginStart
  \/ RegisterStart
  \/ LogoutStart
  \/ ApiCallStart
  \/ ApiCallResponse
  \/ Unmount

SpecMock == InitMock /\ [][NextMock]_vars

\* a hook after its first render: the interval effect and the initial-fetch
\* effect have run
InitPoll ==
  /\ TokenStoreUnused /\ TSUnused /\ RetryUnused /\ HttpUnused /\ EdgeUnused /\ AuthUnused
  /\ ServiceUnused /\ DraftUnused /\ SchedUnused /\ GenUnused
  /\ pHook \in PollHooks
  /\ pMounted = TRUE
  /\ pEnabled \in BOOLEAN
  /\ pInterval \in RefreshIntervals
  /\ pFetchData = 0
  /\ pDeps = EffectDeps
  /\ LET e == IntervalEffect(0, {}, 1, pEnabled, pInterval) IN
       pRef = e.ref /\ pTimers = e.timers /\ pNextId = e.next
  /\ pReqs = <<Request("effect")>>
  /\ pData = 0

\* the register page right after its first render, before its effects
InitDraft ==
  /\ TokenStoreUnused /\ TSUnused /\ RetryUnused /\ HttpUnused /\ EdgeUnused /\ AuthUnused
  /\ ServiceUnused /\ PollUnused /\ SchedUnused /\ GenUnused
  /\ dForm = createInitialFormData
  /\ dStored \in PriorDrafts
  /\ dHydrated = FALSE
  /\ dTimer = FALSE
  /\ dLastWrite = NoDraft

SpecDraft == InitDraft /\ [][NextDraft]_vars

SpecPoll == InitPoll /\ [][NextPoll]_vars

\* the page opens on a generated schedule whose shifts are empty
InitSched ==
  /\ TokenStoreUnused /\ TSUnused /\ RetryUnused /\ HttpUnused /\ EdgeUnused /\ AuthUnused
  /\ ServiceUnused /\ PollUnused /\ DraftUnused /\ GenUnused
  /\ sEditor \in Editors
  /\ sMax \in MaxStaffValues
  /\ sData = [c \in Cells |-> <<>>]
  /\ sCell = NoCell /\ sModal = FALSE /\ sSeen = sData /\ sStale = 0

SpecSched == InitSched /\ [][NextSched]_vars

InitGen ==
  /\ TokenStoreUnused /\ TSUnused /\ RetryUnused /\ HttpUnused /\ EdgeUnused /\ AuthUnused
  /\ ServiceUnused /\ PollUnused /\ DraftUnused /\ SchedUnused
  /\ gPc = "idle" /\ gI = 0 /\ gReqs = 0 /\ gHist = <<>> /\ gDelays = <<>>
  /\ gLoading = FALSE /\ gOut = "pending"

SpecGen == InitGen /\ [][NextGen]_vars

SpecEdge == InitEdge /\ [][NextEdge]_vars

SpecToken == InitToken /\ [][NextToken]_vars

SpecRetry == InitRetry /\ [][NextRetry]_vars

SpecHttp == InitHttp /\ [][NextHttp]_vars

=============================================================================
